---- MODULE Spec2Model ----
(***************************************************************************)
(* A model of the "unwrapped" core: the AsyncResult state cell with its    *)
(* listener engine (src/src/core/asyncResult.ts) and the KeyedAsyncCache   *)
(* built on it (src/src/core/cache.ts).                                    *)
(*                                                                         *)
(* JavaScript is single threaded.  Every action below is one run to        *)
(* completion of the event loop: a call made by client code, or the        *)
(* settling of one promise, each followed by the microtasks it queues: the *)
(* reactions of a settled promise and the continuations of the async       *)
(* functions that awaited it, first in, first out, until the queue is      *)
(* empty.                                                                  *)
(***************************************************************************)
EXTENDS Integers, Sequences, FiniteSets, TLC

\* ------------------------------------------------------------- bounds
MaxInst == 2        \* AsyncResult instances constructed in one behaviour
MaxProm == 2        \* promises created in one behaviour (one per fetch)
MaxPromOneKey == 3  \* the same, when the clients of the cache use a single key
MaxListeners == 2   \* listen() registrations in one behaviour
MaxInstAsync == 1   \* instances, when the clients use one AsyncResult directly
MaxPromMirror == 1  \* promises, when the clients mirror one instance into another
MaxListenersMirror == 3 \* listen() and mirror() registrations, in the same case
MaxTime == 1        \* last value of the wall clock
TTLMs == 0          \* the finite cacheTTL a cache is constructed with
DebounceMs == 2     \* the finite debounceLoadingMs a listener is registered with
MaxAwait == 2       \* async calls waiting for a promise at one time
MaxListenersAwait == 1 \* listen() registrations, when the clients await an instance
MaxInstChain == 3   \* instances, when the clients chain AsyncResults
MaxPromChain == 3   \* promises, in the same case
MaxInputs == 2      \* length of the list given to ensureAvailable
\* the mirror-and-detach clients: promises and listener entries
MaxPromLink == 1
MaxPromColl == 1     \* promises, when the clients use a collection
MaxListenersColl == 3 \* tasks added to the collection
MaxYields == 3       \* Results a generator given to Result.run yields
MaxCallbacks == 2   \* invocations of one callback that the history keeps
MaxListenersLink == 2

\* ------------------------------------------------- program constants
Infinity == -1      \* the IEEE value Infinity (cacheTTL default, debounce)
Undefined == -2     \* an absent optional number (lastFetched?: number)

InstIds == 1..(IF MaxInst > MaxInstChain THEN MaxInst ELSE MaxInstChain)
PromIds == 1..(IF MaxProm > MaxPromOneKey THEN MaxProm ELSE MaxPromOneKey)
ListenerIds == 1..(IF MaxListeners > MaxListenersMirror THEN MaxListeners ELSE MaxListenersMirror)
NoProm == 0
NoInst == 0

VARIABLES
    state,        \* AsyncResult._state of every instance ("none": not constructed)
    listeners,    \* AsyncResult._listeners of every instance, in insertion order
    promises,     \* the promises handed to updateFromResultPromise
    now,          \* Date.now()
    nInst,        \* instances constructed so far
    nListen,      \* listener entries created so far
    cacheTTL,     \* KeyedAsyncCache._cacheTTL
    cacheMap,     \* KeyedAsyncCache._cache: key -> cache item (0: no entry)
    items,        \* the CacheItem objects, named by the instance they hold
    parentalLink, \* AsyncResult._parentalLink of every instance
    built,        \* history: how every instance was built and used
    clients,      \* the parameters the clients of the cache pass to it
    budget,       \* the instances, promises and listeners the behaviour may create
    fetches,      \* history: fetcher invocations so far
    returned,     \* history: the instances get() has ever returned
    lastRet,      \* history: what the last get() on a key returned since the last clear()
    collection,   \* an AsyncResultCollection: _list, _state and its notifications
    last,         \* history: the operation performed by the last step
    trace         \* history: state assignments and listener calls of the last step

vars == <<state, listeners, promises, now, nInst, nListen, cacheTTL, cacheMap,
          items, parentalLink, built, clients, budget, fetches, returned, lastRet, collection,
          last, trace>>

\* ------------------------------------------------------ AsyncResultState
NoError == [code |-> "", cause |-> 0]

\* asyncResult.ts 9-12: the tagged union, as one record shape
Idle == [status |-> "idle", promise |-> NoProm, progress |-> 0, value |-> 0, error |-> NoError]
Loading(p, pr) == [status |-> "loading", promise |-> p, progress |-> pr, value |-> 0, error |-> NoError]
Success(v) == [status |-> "success", promise |-> NoProm, progress |-> 0, value |-> v, error |-> NoError]
Failure(e) == [status |-> "error", promise |-> NoProm, progress |-> 0, value |-> 0, error |-> e]
NotConstructed == [status |-> "none", promise |-> NoProm, progress |-> 0, value |-> 0, error |-> NoError]

IsTerminal(s) == s.status \in {"success", "error"}

\* error.ts: new ErrorBase(code, message, thrownError)
ErrorBase(code, thrown) == [code |-> code, cause |-> thrown]

DefectCode == "defect_on_updateFromResultPromise"

\* ------------------------------------------------------------ listeners
\* asyncResult.ts 57-61: AsyncResultListenerOptions; an omitted field is
\* undefined, which reads as false / 0
Options(immediate, callOnProgressUpdates, debounceLoadingMs) ==
    [immediate |-> immediate, callOnProgressUpdates |-> callOnProgressUpdates,
     debounceLoadingMs |-> debounceLoadingMs]

\* the options the clients pass: {}, { immediate: true }, a finite and an
\* infinite debounce delay, and the default
ListenerOptions ==
    {Options(FALSE, FALSE, 0), Options(TRUE, FALSE, 0), Options(TRUE, TRUE, 0),
     Options(FALSE, TRUE, DebounceMs), Options(TRUE, FALSE, Infinity)}

\* asyncResult.ts 398: the default value of the options parameter
DefaultListenerOptions == Options(TRUE, TRUE, 0)

\* asyncResult.ts 404-426: the strategy listen() selects for a debounce delay
ListenStrategy(options) ==
    LET wait == options.debounceLoadingMs IN
    IF wait # Infinity /\ wait <= 0 THEN "immediate"
    ELSE IF wait = Infinity THEN "ignoreLoading"
    ELSE "timed"

\* asyncResult.ts 428: the entry stored in _listeners holds the listener passed
\* by the caller and the options; the selected strategy is not part of it.
\* mirror names the instance the listener copies the state to (asyncResult.ts
\* 531-533), NoInst for a callback of a client.
\* History, kept for the entries registered with a finite debounce delay:
\* enteredAt is the time the instance last entered loading since the entry
\* was registered, gotLoading tells that a state assignment has called the
\* listener with the instance loading since then.
\* derived names the instance the listener of derivedFromParent drives
\* (asyncResult.ts 583-589) and yields the instances its generator yields.
\* until tells that the listener is the wrapper of listenUntilSettled
\* (asyncResult.ts 448-453), which calls unsub once the instance is settled;
\* bound tells whether that wrapper's constant unsub has been initialised,
\* which the return of listen() does.  once names the status the callback of
\* onSuccessOnce / onErrorOnce is called for (asyncResult.ts 463-469, 489-495).
\* key is the key that the callback of AsyncResultCollection.add closes over,
\* "" for any other listener.
ListenerEntry(id, options, target) ==
    [id |-> id, options |-> options, mirror |-> target,
     enteredAt |-> Undefined, gotLoading |-> FALSE, derived |-> NoInst, yields |-> <<>>,
     until |-> FALSE, bound |-> TRUE, once |-> "none", key |-> ""]
UntilSettledEntry(id, options, target, once) ==
    [ListenerEntry(id, options, target) EXCEPT !.until = TRUE, !.once = once]
DerivedEntry(id, options, d, yields) ==
    [ListenerEntry(id, options, NoInst) EXCEPT !.derived = d, !.yields = yields]

SetEvent(i, old, new) == [type |-> "set", inst |-> i, entry |-> 0, old |-> old, new |-> new]
CallEvent(i, e, old, seen) == [type |-> "call", inst |-> i, entry |-> e, old |-> old, new |-> seen]
\* History: the callback given to onSuccessOnce / onErrorOnce is invoked
CallbackEvent(i, e, seen) ==
    [type |-> "callback", inst |-> i, entry |-> e, old |-> NotConstructed, new |-> seen]
\* History: the listener of entry e of instance i throws
ThrownEvent(i, e, seen) ==
    [type |-> "thrown", inst |-> i, entry |-> e, old |-> NotConstructed, new |-> seen]

\* History of an instance: the factory that built it and the promise it was
\* given, whether it has been loading, whether a client has updated it
\* since (updateFromValue, updateFromError, a new cycle, a mirror), and the
\* listener entries that were unsubscribed from it.  For an instance derived
\* from another (chain, flatChain): the instance it was derived from, the
\* function it was given and what that function returns, the state the
\* derivation found its source in, and the values the function was invoked
\* with, in order.  For an instance made by ensureAvailable: the list it
\* was given.  For an instance driven by a generator (run): the instances the
\* generator yields, and in resumed the values it was resumed with.  For an
\* instance derived with a generator (derivedGenerator): in calls the values
\* the generator function was invoked with and in runs the promises of these
\* runs.  In once: the entries whose onSuccessOnce / onErrorOnce callback was
\* invoked, one for each invocation, in order; of one entry the first
\* MaxCallbacks invocations are kept.
Built(by, p) ==
    [by |-> by, promise |-> p, wasLoading |-> FALSE, touched |-> FALSE, gone |-> {},
     from |-> NoInst, fn |-> "none", ret |-> 0, seen |-> NotConstructed, calls |-> <<>>,
     inputs |-> <<>>, resumed |-> <<>>, runs |-> <<>>, once |-> <<>>]
NotBuilt == Built("none", NoProm)
BuiltFrom(by, p, from, fn, ret) ==
    [Built(by, p) EXCEPT !.from = from, !.fn = fn, !.ret = ret]

\* A promise the program was handed: its status and the reactions registered
\* on it, in registration order.
\* kind "result": a Promise<Result<T, E>>; kind "value": a Promise<T>; kind
\* "async": the promise of an async function of the library.
\* What a promise settles with: the state of the Result it fulfils with, or
\* the reason it rejects with (held as the error of an error state).
Fulfilled(st) == [rejected |-> FALSE, state |-> st]
Rejected(reason) == [rejected |-> TRUE, state |-> Failure(reason)]
\* an async function that returns the instance it was called on
ResolvedWithItself == Fulfilled(NotConstructed)

NoPromise ==
    [status |-> "none", kind |-> "result", reactions |-> <<>>, res |-> ResolvedWithItself]
PendingPromise(kind) ==
    [status |-> "pending", kind |-> kind, reactions |-> <<>>, res |-> ResolvedWithItself]
\* a settled promise has queued its reactions and keeps what it settled with
SettledPromise(kind, res) ==
    [status |-> "settled", kind |-> kind, reactions |-> <<>>, res |-> res]

\* ------------------------------------------------ AsyncResultCollection
\* The keys the clients of the collection use.
CollKeys == {"a", "b"}

\* _list (part_004 44): a Map from key to { key, result, unsub }; unsub is
\* named by the listener entry it removes.  NoTask: the key is not tracked.
\* removeOnSettle is history: the argument the item was added with.
NoTask == [result |-> NoInst, entry |-> 0, removeOnSettle |-> FALSE]

\* part_004 44-46: a new collection.  notes is history: the values the state
\* setter was given during the last step; each assignment calls every
\* listener of the collection (part_004 86-89).
NewCollection ==
    [list |-> [k \in CollKeys |-> NoTask], state |-> "all-settled", notes |-> <<>>]

\* The part of the program state that a state assignment reads and writes.
World == [state |-> state, listeners |-> listeners, promises |-> promises,
          items |-> items, parentalLink |-> parentalLink, built |-> built, trace |-> <<>>,
          jobs |-> <<>>, exc |-> FALSE, coll |-> [collection EXCEPT !.notes = <<>>]]

RECURSIVE SetState(_, _, _)
RECURSIVE RunInPlace(_, _, _, _, _)

NumPromIn(W) == Cardinality({p \in PromIds : W.promises[p].status # "none"})

\* the listener of derivedFromParent, had it run the generator in every state
DerivedCallbackInAnyState(W, d, st, yields) ==
    LET q == NumPromIn(W) + 1
        W1 == [W EXCEPT !.promises[q] = PendingPromise("async"),
                        !.built[d].calls = Append(@, st.value),
                        !.built[d].runs = Append(@, q)]
    IN RunInPlace(W1, d, q, yields, <<st.value>>)

\* asyncResult.ts 583-590: the listener of derivedFromParent, called with the
\* parent in state st; a run gets the promise of its action
DerivedCallback(W, d, st, yields) ==
    LET q == NumPromIn(W) + 1
        W1 == [W EXCEPT !.promises[q] = PendingPromise("async"),
                        !.built[d].calls = Append(@, st.value),
                        !.built[d].runs = Append(@, q)]
    IN IF st.status = "success" THEN RunInPlace(W1, d, q, yields, <<st.value>>)
       ELSE SetState(W, d, st)

\* the closure listen() returns, had it left the entry in the set
UnlistenWithoutDelete(W, i, id) ==
    [W EXCEPT !.built[i].gone = @ \cup {id}]

\* asyncResult.ts 435-438: the closure listen() returns
Unlisten(W, i, id) ==
    [W EXCEPT !.listeners[i] = SelectSeq(@, LAMBDA en : en.id # id),
              !.built[i].gone = @ \cup {id}]

\* part_004 200-207: anyLoading()
AnyLoading(W) ==
    \E k \in CollKeys :
        /\ W.coll.list[k].result # NoInst
        /\ W.state[W.coll.list[k].result].status = "loading"

\* part_004 86-89: private set state(s)
SetCollectionState(W, s) ==
    [W EXCEPT !.coll.state = s, !.coll.notes = Append(@, s)]

\* _onTaskFinished, had it reported all-settled whatever is loading
OnTaskFinishedAllSettled(W) == SetCollectionState(W, "all-settled")

\* part_004 91-93: _onTaskFinished()
OnTaskFinished(W) ==
    SetCollectionState(W, IF AnyLoading(W) THEN "any-loading" ELSE "all-settled")

\* part_004 152-156 and 158-161: the listener that add() registers on the
\* task, called with the task in state seen
CollectionCallback(W, key, removeOnSettle, seen) ==
    IF seen.status \in {"loading", "idle"} THEN W
    ELSE LET W1 == OnTaskFinished(W)
         IN IF removeOnSettle THEN [W1 EXCEPT !.coll.list[key] = NoTask] ELSE W1

\* asyncResult.ts 190 (and 432): the call listenerEntry.listener(this, oldState).
\* A callback of a client observes the instance's current state; the callback
\* of mirror() assigns that state to the mirroring instance.
\* An exception a listener throws leaves the call: W.exc is set while it
\* propagates.  The wrapper of listenUntilSettled (asyncResult.ts 448-453)
\* calls the listener and then, with the instance settled, unsub(): a
\* constant that is initialised when listen() returns, so that the call made
\* for options.immediate (which passes no old state) reads it before its
\* initialisation, which throws; after listen() was left by an exception it
\* is never initialised.
InvokeListener(W, i, e, old) ==
    LET seen == W.state[i]
        k == CHOOSE n \in 1..Len(W.listeners[i]) : W.listeners[i][n].id = e
        en == W.listeners[i][k]
        W1 == [W EXCEPT !.trace = Append(@, CallEvent(i, e, old, seen)),
                        !.listeners[i][k].gotLoading =
                            @ \/ (seen.status = "loading" /\ en.enteredAt # Undefined)]
        \* asyncResult.ts 450-452: the wrapper, its listener having returned in W2
        AfterListener(W2) ==
            IF W2.exc \/ ~en.until \/ ~IsTerminal(seen) THEN W2
            ELSE IF old = NotConstructed \/ ~en.bound
            THEN [W2 EXCEPT !.exc = TRUE, !.trace = Append(@, ThrownEvent(i, e, seen))]
            ELSE Unlisten(W2, i, e)
    IN AfterListener(
           IF en.derived # NoInst THEN DerivedCallback(W1, en.derived, seen, en.yields)
           ELSE IF en.mirror # NoInst THEN SetState(W1, en.mirror, seen)
           ELSE IF en.key # "" THEN CollectionCallback(W1, en.key, en.until, seen)
           ELSE IF en.once = seen.status
           THEN [W1 EXCEPT !.trace = Append(@, CallbackEvent(i, e, seen)),
                           !.built[i].once =
                               IF Len(SelectSeq(@, LAMBDA x : x = e)) < MaxCallbacks
                               THEN Append(@, e) ELSE @]
           ELSE W1)

\* the test of set state, had it compared the two statuses
ShouldNotifyOnStatusChange(oldState, newState, entry) ==
    oldState.status # newState.status \/ entry.options.callOnProgressUpdates

\* asyncResult.ts 189: which entries a state assignment calls
ShouldNotify(oldState, newState, entry) ==
    (oldState.status # "loading" \/ newState.status # "loading")
        \/ entry.options.callOnProgressUpdates

\* asyncResult.ts 188-192: this._listeners.forEach(...), a Set iterated in
\* insertion order; visited holds the ids of the entries already passed.
RECURSIVE ForEachListener(_, _, _, _, _)
ForEachListener(W, i, oldState, newState, visited) ==
    LET rest == SelectSeq(W.listeners[i], LAMBDA en : en.id \notin visited) IN
    IF rest = <<>> THEN W
    ELSE LET en == Head(rest)
             \* what a listener throws leaves forEach
             Onward(W1) ==
                 IF W1.exc THEN W1
                 ELSE ForEachListener(W1, i, oldState, newState, visited \cup {en.id})
         IN Onward(IF ShouldNotify(oldState, newState, en)
                   THEN InvokeListener(W, i, en.id, oldState)
                   ELSE W)

\* asyncResult.ts 184-193: set state(newState)
SetState(W, i, newState) ==
    LET oldState == W.state[i]
        entering == oldState.status # "loading" /\ newState.status = "loading"
        Arm(en) == IF entering /\ ListenStrategy(en.options) = "timed"
                   THEN [en EXCEPT !.enteredAt = now, !.gotLoading = FALSE]
                   ELSE en
        RECURSIVE ArmEach(_)
        ArmEach(ls) == IF ls = <<>> THEN <<>> ELSE <<Arm(Head(ls))>> \o ArmEach(Tail(ls))
        W1 == [W EXCEPT !.state[i] = newState,
                        !.built[i].wasLoading = @ \/ newState.status = "loading",
                        !.trace = Append(@, SetEvent(i, oldState, newState)),
                        !.listeners[i] = ArmEach(@)]
    IN ForEachListener(W1, i, oldState, newState, {})

\* asyncResult.ts 235-238: updateFromValue(value)
UpdateFromValue(W, i, value) == SetState(W, i, Success(value))

\* asyncResult.ts 245-248: updateFromError(error)
UpdateFromError(W, i, error) == SetState(W, i, Failure(error))

\* updateProgress, had it not looked at the status
UpdateProgressInAnyState(W, i, progress) ==
    SetState(W, i, [W.state[i] EXCEPT !.progress = progress])

\* asyncResult.ts 254-259: updateProgress(progress)
UpdateProgress(W, i, progress) ==
    IF W.state[i].status = "loading"
    THEN SetState(W, i, [W.state[i] EXCEPT !.progress = progress])
    ELSE W

\* asyncResult.ts 398-439: listen(listener, options); the call made for
\* options.immediate passes no old state.
ListenWith(W, i, entry) ==
    LET W1 == [W EXCEPT !.listeners[i] = Append(@, entry)]
        k == Len(W1.listeners[i])
        \* what the immediate call throws leaves listen() before it returns
        Returned(W2) == IF W2.exc THEN [W2 EXCEPT !.listeners[i][k].bound = FALSE] ELSE W2
    IN IF ~entry.options.immediate THEN W1
       ELSE Returned(InvokeListener(W1, i, entry.id, NotConstructed))

Listen(W, i, id, options, target) == ListenWith(W, i, ListenerEntry(id, options, target))

\* asyncResult.ts 84: _parentalLink, null or { parent, stopListening }, the
\* closure named by the listener entry it removes
NoLink == [parent |-> NoInst, entry |-> 0]

\* asyncResult.ts 530-537: mirror(other, options), called on instance i
Mirror(W, i, other, id, options) ==
    LET Linked(W1) == IF W1.exc THEN W1
                      ELSE [W1 EXCEPT !.parentalLink[i] = [parent |-> other, entry |-> id]]
    IN Linked(Listen(W, other, id, options, i))

\* asyncResult.ts 447-456: listenUntilSettled(listener, options)
ListenUntilSettled(W, i, id, options, target, once) ==
    ListenWith(W, i, UntilSettledEntry(id, options, target, once))

\* asyncResult.ts 545-552: mirrorUntilSettled(other, options), called on
\* instance i; an exception that leaves listenUntilSettled skips setParentalLink
MirrorUntilSettled(W, i, other, id, options) ==
    LET Linked(W1) == IF W1.exc THEN W1
                      ELSE [W1 EXCEPT !.parentalLink[i] = [parent |-> other, entry |-> id]]
    IN Linked(ListenUntilSettled(W, other, id, options, i, "none"))

\* part_004 152 and 158: add() passes true where listen() and
\* listenUntilSettled() take an options object; no property of true is
\* defined, so that immediate and callOnProgressUpdates are falsy and
\* debounceLoadingMs ?? 0 is 0 (asyncResult.ts 404, 189, 431)
CollectionListenerOptions == Options(FALSE, FALSE, 0)

\* part_004 149-168: add(key, task, removeOnSettle); Map.set replaces the
\* item of a key that is tracked already
Add(W, key, task, removeOnSettle, id) ==
    LET entry == IF removeOnSettle
                 THEN UntilSettledEntry(id, CollectionListenerOptions, NoInst, "none")
                 ELSE ListenerEntry(id, CollectionListenerOptions, NoInst)
        W1 == ListenWith(W, task, [entry EXCEPT !.key = key])
        W2 == [W1 EXCEPT !.coll.list[key] =
                   [result |-> task, entry |-> id, removeOnSettle |-> removeOnSettle]]
    IN SetCollectionState(W2, "any-loading")

\* remove, had it kept the listener on the task
RemoveWithoutUnsubscribe(W, key) ==
    IF W.coll.list[key] = NoTask THEN W
    ELSE OnTaskFinished([W EXCEPT !.coll.list[key] = NoTask])

\* part_004 175-183: remove(key)
Remove(W, key) ==
    LET item == W.coll.list[key]
    IN IF item = NoTask THEN W
       ELSE OnTaskFinished([Unlisten(W, item.result, item.entry)
                               EXCEPT !.coll.list[key] = NoTask])

\* part_004 188-192: clear()
RECURSIVE UnsubscribeAll(_, _)
UnsubscribeAll(W, ks) ==
    IF ks = {} THEN W
    ELSE LET k == CHOOSE x \in ks : TRUE
             item == W.coll.list[k]
         IN UnsubscribeAll(IF item = NoTask THEN W
                           ELSE Unlisten(W, item.result, item.entry), ks \ {k})
ClearCollection(W) ==
    SetCollectionState([UnsubscribeAll(W, CollKeys) EXCEPT
                            !.coll.list = [k \in CollKeys |-> NoTask]], "all-settled")

\* detachFromParent, had it only forgotten the link
DetachFromParentWithoutUnsubscribe(W, i) ==
    [W EXCEPT !.parentalLink[i] = NoLink]

\* asyncResult.ts 514-519: detachFromParent()
DetachFromParent(W, i) ==
    LET link == W.parentalLink[i]
    IN IF link.parent = NoInst THEN W
       ELSE [Unlisten(W, link.parent, link.entry) EXCEPT !.parentalLink[i] = NoLink]

\* ------------------------------------------------------------- promises
\* A reaction registered on a promise: a callback passed to then(), or the
\* rest of an async function from the await on.  then lists the frames that
\* await one another's promises behind it, the nearest first.
Reaction(kind, target) ==
    [kind |-> kind, target |-> target, promise |-> NoProm, owner |-> NoInst,
     fn |-> "none", inputs |-> <<>>, vals |-> <<>>, then |-> <<>>]

\* asyncResult.ts 379-385: promise.then(res => this.state = res.state).catch(...)
UpdateReaction(i) == Reaction("update", i)
\* cache.ts 84-86: promise.then(() => cacheItem.lastFetched = Date.now())
StampReaction(item) == Reaction("stamp", item)

\* updateFromResultPromise, had it written _state instead of state
UpdateFromResultPromiseSilently(W, i, p) ==
    [W EXCEPT !.state[i] = Loading(p, 0),
              !.built[i].wasLoading = TRUE,
              !.promises[p].reactions = Append(@, UpdateReaction(i))]

\* updateFromResultPromise, had it left the state alone until the promise settles
UpdateFromResultPromiseLate(W, i, p) ==
    [W EXCEPT !.promises[p].reactions = Append(@, UpdateReaction(i))]

\* asyncResult.ts 377-387: updateFromResultPromise(promise)
UpdateFromResultPromise(W, i, p) ==
    LET W1 == SetState(W, i, Loading(p, 0))
    IN [W1 EXCEPT !.promises[p].reactions = Append(@, UpdateReaction(i))]

\* asyncResult.ts 289-299: updateFromValuePromise(promise).  The promise and
\* the wrapper around it are one promise of kind "value" here: the wrapper
\* resolves in the turn in which the promise settles.
UpdateFromValuePromise(W, i, p) == UpdateFromResultPromise(W, i, p)

\* asyncResult.ts 617-620: updateFromAction(action).  The action is invoked
\* first and may report progress before it returns its promise.
UpdateFromAction(W, i, p, reportsProgress) ==
    LET W1 == IF reportsProgress THEN UpdateProgress(W, i, 1) ELSE W
    IN UpdateFromResultPromise(W1, i, p)

\* What a promise settles with: a Result (result.ts 7-9, 56-67) or a rejection.
\* The value, error cause or rejection reason is the promise's own number, so
\* that a state tells which promise produced it.
Outcomes == {"success", "error", "reject"}
ResultState(p, outcome) ==
    IF outcome = "success" THEN Success(p) ELSE Failure(ErrorBase("E", p))

\* the value a rejected promise p was rejected with (any thrown value)
Thrown(p) == [code |-> "thrown", cause |-> p]

\* what the wrapper of listenUntilSettled throws when it calls unsub before
\* its initialisation (a ReferenceError)
ListenerError == [code |-> "ReferenceError", cause |-> 0]

\* the wrapper of updateFromValuePromise, had it wrapped what it caught as
\* the catch callback of updateFromResultPromise does
ValueResultStateAsDefect(p, outcome) ==
    IF outcome = "success" THEN Success(p) ELSE Failure(ErrorBase(DefectCode, p))

\* asyncResult.ts 290-297: the Result the wrapper of updateFromValuePromise
\* resolves with; the wrapper itself never rejects.
ValueResultState(p, outcome) ==
    IF outcome = "success" THEN Success(p) ELSE Failure(Thrown(p))

\* what the promise handed to updateFromResultPromise settles with; for a
\* Promise<T> that is what the wrapper of updateFromValuePromise resolves with
Settlement(p, kind, outcome) ==
    IF kind = "value" THEN Fulfilled(ValueResultState(p, outcome))
    ELSE IF outcome = "reject" THEN Rejected(Thrown(p))
    ELSE Fulfilled(ResultState(p, outcome))

\* History: a rejection no handler took (an unhandledrejection event)
UnhandledEvent(p) ==
    [type |-> "unhandled", inst |-> NoInst, entry |-> p, old |-> NotConstructed,
     new |-> NotConstructed]

\* History: the time a cache item's AsyncResult last settled.
NoteSettled(W, i) ==
    IF W.items[i].result = i THEN [W EXCEPT !.items[i].settledAt = now] ELSE W

\* the callbacks of updateFromResultPromise, had they dropped the settlement
\* of a promise the instance no longer waits for
UpdateCallbackOfCurrentCycle(W, i, p, res) ==
    IF W.state[i].status = "loading" /\ W.state[i].promise # p THEN W
    ELSE IF res.rejected
    THEN UpdateFromError(W, i, ErrorBase(DefectCode, res.state.error.cause))
    ELSE SetState(W, i, res.state)

\* the callbacks of updateFromResultPromise, had catch() been left out
UpdateCallbackWithoutCatch(W, i, p, res) ==
    IF res.rejected THEN [W EXCEPT !.trace = Append(@, UnhandledEvent(p))]
    ELSE SetState(W, i, res.state)

\* asyncResult.ts 380-385: the then / catch callbacks of updateFromResultPromise
UpdateCallback(W, i, p, res) ==
    IF res.rejected
    THEN UpdateFromError(W, i, ErrorBase(DefectCode, res.state.error.cause))
    ELSE SetState(W, i, res.state)

\* the callback of the cache, had it been given to finally()
StampCallbackOnAnySettlement(W, item, p, res) ==
    [W EXCEPT !.items[item].lastFetched = now]

\* cache.ts 84-86: the then callback of the cache; a then() without catch()
\* is skipped by a rejection, which no handler takes
StampCallback(W, item, p, res) ==
    IF res.rejected THEN [W EXCEPT !.trace = Append(@, UnhandledEvent(p))]
    ELSE [W EXCEPT !.items[item].lastFetched = now]

\* ------------------------------------------------------------- microtasks
\* A queued microtask: a reaction together with the promise that settled and
\* what it settled with.
Job(r, p, res) == [reaction |-> r, promise |-> p, res |-> res]
Enqueue(W, r, p, res) == [W EXCEPT !.jobs = Append(@, Job(r, p, res))]

\* A promise settles: its reactions are queued in registration order.
SettlePromise(W, p, res) ==
    LET rs == W.promises[p].reactions
    IN [W EXCEPT !.promises[p] = SettledPromise(@.kind, res),
                 !.jobs = @ \o [n \in DOMAIN rs |-> Job(rs[n], p, res)]]

\* await promise / promise.then(callback): the reaction is queued at once
\* when the promise has settled already
Await(W, p, r) ==
    IF W.promises[p].status = "settled"
    THEN Enqueue(W, r, p, W.promises[p].res)
    ELSE [W EXCEPT !.promises[p].reactions = Append(@, r)]

\* The promise of an async function settles with res: the frame that awaits
\* it is queued; a rejection nobody awaits is left unhandled.
Continue(W, then, p, res) ==
    IF then = <<>>
    THEN IF res.rejected THEN [W EXCEPT !.trace = Append(@, UnhandledEvent(p))] ELSE W
    ELSE Enqueue(W, [Head(then) EXCEPT !.then = Tail(then)], p, res)

\* asyncResult.ts 310-314: the rest of waitForSettled() after the await: the
\* private field is written, not the state setter
WaitCallback(W, i, res) ==
    [W EXCEPT !.state[i] = IF res.rejected THEN Failure(res.state.error) ELSE res.state]

\* asyncResult.ts 308-318: waitForSettled(), up to its await or its return
WaitForSettled(W, i, then) ==
    IF W.state[i].status = "loading"
    THEN Await(W, W.state[i].promise, [Reaction("wait", i) EXCEPT !.then = then])
    ELSE Continue(W, then, NoProm, ResolvedWithItself)

\* asyncResult.ts 327: new Error('Cannot convert idle or loading AsyncResult to ResultState')
ConversionError == [code |-> "Cannot convert idle or loading AsyncResult to ResultState", cause |-> 0]

\* toResultPromise(), had it converted whatever state it finds
ToResultOfAnyState(W, i, then) == Continue(W, then, NoProm, Fulfilled(W.state[i]))

\* asyncResult.ts 325-332: the rest of toResultPromise() after its await
ToResult(W, i, then) ==
    LET settled == W.state[i]
    IN IF settled.status \in {"idle", "loading"}
       THEN Continue(W, then, NoProm, Rejected(ConversionError))
       ELSE Continue(W, then, NoProm, Fulfilled(settled))

\* asyncResult.ts 324: toResultPromise(), up to its await
ToResultPromise(W, i, then) == WaitForSettled(W, i, <<Reaction("toResult", i)>> \o then)

\* The client that awaits the promise of fn() on an instance, inside
\* try / catch.  History: what the promise settled with; for waitForSettled
\* that is the instance, seen in the state it has at that moment.
AwaitFrame(fn, i) == [Reaction("await", i) EXCEPT !.fn = fn]
AwaitEvent(W, r, res) ==
    [type |-> IF res.rejected THEN "rejected" ELSE "resolved", inst |-> r.target,
     entry |-> 0, old |-> W.state[r.target],
     new |-> IF r.fn = "waitForSettled" THEN W.state[r.target] ELSE res.state]

\* ------------------------------------------------------------- chaining
\* The functions the clients pass to chain(): one that returns Result.ok, one
\* that returns Result.err, one that returns a Promise<Result> it holds.
ChainFns == {"ok", "err", "promise"}
Apply(fn, v) == IF fn = "ok" THEN Success(v + 1) ELSE Failure(ErrorBase("F", v))

\* asyncResult.ts 654: new Error('Unexpected state after waitForSettled')
UnexpectedStateError == [code |-> "Unexpected state after waitForSettled", cause |-> 0]

\* The frame of newResultBuilder() of a.chain(fn): q is its promise, r the
\* instance made from q, p2 the promise fn returns (when it returns one).
ChainFrame(a, q, r, fn, p2) ==
    [Reaction("chain", a) EXCEPT !.promise = q, !.owner = r, !.fn = fn, !.inputs = <<p2>>]

\* an async function returned a promise: its own promise follows that one
ForwardReaction(q) == [Reaction("forward", NoInst) EXCEPT !.promise = q]

\* newResultBuilder of chain, had it passed every settled state on to fn
ChainStepWithoutShortCircuit(W, r) ==
    LET settled == W.state[r.target]
        W1 == [W EXCEPT !.built[r.owner].seen = settled,
                        !.built[r.owner].calls = Append(@, settled.value)]
    IN IF r.fn = "promise" THEN Await(W1, r.inputs[1], ForwardReaction(r.promise))
       ELSE SettlePromise(W1, r.promise, Fulfilled(Apply(r.fn, settled.value)))

\* asyncResult.ts 652-660: newResultBuilder of chain, after its await
ChainStep(W, r) ==
    LET settled == W.state[r.target]
        W1 == [W EXCEPT !.built[r.owner].seen = settled]
        W2 == [W1 EXCEPT !.built[r.owner].calls = Append(@, settled.value)]
    IN IF settled.status \in {"loading", "idle"}
       THEN SettlePromise(W1, r.promise, Rejected(UnexpectedStateError))
       ELSE IF settled.status = "error"
       THEN SettlePromise(W1, r.promise, Fulfilled(Failure(settled.error)))
       ELSE IF r.fn = "promise"
       THEN Await(W2, r.inputs[1], ForwardReaction(r.promise))
       ELSE SettlePromise(W2, r.promise, Fulfilled(Apply(r.fn, settled.value)))

\* asyncResult.ts 650-664: a.chain(fn), building instance r from promise q
Chain(W, a, q, r, fn, p2) ==
    LET W1 == WaitForSettled(W, a, <<ChainFrame(a, q, r, fn, p2)>>)
        W2 == [W1 EXCEPT !.state[r] = Idle, !.built[r] = BuiltFrom("chain", q, a, fn, p2)]
    IN UpdateFromResultPromise(W2, r, q)

\* The frames of newResultBuilder() of a.flatChain(fn), where fn returns
\* the instance n: at its first and at its second await.
FlatChainFrame(a, q, r, n) ==
    [Reaction("flatChain", a) EXCEPT !.promise = q, !.owner = r, !.inputs = <<n>>]
FlatChainNextFrame(q, r, n) ==
    [Reaction("flatChainNext", n) EXCEPT !.promise = q, !.owner = r]

\* asyncResult.ts 682-689: newResultBuilder of flatChain, after its first
\* await.  History: seen is the state toResultPromise() converted, idle when
\* it threw.
FlatChainStep(W, r, res) ==
    LET W1 == [W EXCEPT !.built[r.owner].seen = IF res.rejected THEN Idle ELSE res.state]
        W2 == [W1 EXCEPT !.built[r.owner].calls = Append(@, res.state.value)]
    IN IF res.rejected THEN SettlePromise(W1, r.promise, res)
       ELSE IF res.state.status = "error"
       THEN SettlePromise(W1, r.promise, Fulfilled(Failure(res.state.error)))
       ELSE ToResultPromise(W2, r.inputs[1],
                            <<FlatChainNextFrame(r.promise, r.owner, r.inputs[1])>>)

\* asyncResult.ts 680-693: a.flatChain(fn), building instance r from promise q
FlatChain(W, a, q, r, n) ==
    LET W1 == ToResultPromise(W, a, <<FlatChainFrame(a, q, r, n)>>)
        W2 == [W1 EXCEPT !.state[r] = Idle,
                         !.built[r] = BuiltFrom("flatChain", q, a, "instance", n)]
    IN UpdateFromResultPromise(W2, r, q)

\* ------------------------------------------------------ ensureAvailable
\* null, and a list of values as one number: the values are digits 1..8,
\* null is the digit 9, the empty list is 0
Null == 9
RECURSIVE ListOf(_)
ListOf(vs) == IF vs = <<>> THEN 0 ELSE 10 * ListOf(SubSeq(vs, 1, Len(vs) - 1)) + vs[Len(vs)]

\* asyncResult.ts 141-146: unwrapOrNull()
UnwrapOrNull(st) == IF st.status = "success" THEN st.value ELSE Null

\* Promise.all: the reaction on the promise of the k-th waitForSettled()
AllItemFrame(q, r, inputs, k) ==
    [Reaction("allItem", inputs[k]) EXCEPT !.promise = q, !.owner = r, !.inputs = inputs]
\* asyncResult.ts 713-725: the callback given to then()
AllFrame(q, r, inputs) ==
    [Reaction("all", NoInst) EXCEPT !.promise = q, !.owner = r, !.inputs = inputs]

IsAllItem(x, q) ==
    \/ x.kind = "allItem" /\ x.promise = q
    \/ x.then # <<>> /\ x.then[1].kind = "allItem" /\ x.then[1].promise = q

RECURSIVE AllItemsWaitingUpTo(_, _, _)
AllItemsWaitingUpTo(W, q, p) ==
    IF p = 0 THEN 0
    ELSE AllItemsWaitingUpTo(W, q, p - 1)
         + Len(SelectSeq(W.promises[p].reactions, LAMBDA x : IsAllItem(x, q)))

\* Promise.all: the elements whose promise has not told it has resolved
AllItemsLeft(W, q) ==
    AllItemsWaitingUpTo(W, q, Cardinality(PromIds))
    + Len(SelectSeq(W.jobs, LAMBDA j : IsAllItem(j.reaction, q)))

\* Promise.all: one element has resolved; after the last one the promise of
\* all resolves and the callback given to then() is queued
AllItem(W, r) ==
    IF AllItemsLeft(W, r.promise) = 0
    THEN Enqueue(W, AllFrame(r.promise, r.owner, r.inputs), NoProm, ResolvedWithItself)
    ELSE W

\* the callback of ensureAvailable, had it returned the last error of the list
EnsureCallbackLastError(W, r) ==
    LET errors == {k \in DOMAIN r.inputs : W.state[r.inputs[k]].status = "error"}
        last_ == CHOOSE k \in errors : \A j \in errors : j <= k
        values == [k \in DOMAIN r.inputs |-> UnwrapOrNull(W.state[r.inputs[k]])]
    IN IF errors # {}
       THEN SettlePromise(W, r.promise, Fulfilled(Failure(W.state[r.inputs[last_]].error)))
       ELSE SettlePromise(W, r.promise, Fulfilled(Success(ListOf(values))))

\* asyncResult.ts 714-724: the callback given to then(): the first error in
\* the order of the list, else the values
EnsureCallback(W, r) ==
    LET errors == {k \in DOMAIN r.inputs : W.state[r.inputs[k]].status = "error"}
        first == CHOOSE k \in errors : \A j \in errors : k <= j
        values == [k \in DOMAIN r.inputs |-> UnwrapOrNull(W.state[r.inputs[k]])]
    IN IF errors # {}
       THEN SettlePromise(W, r.promise, Fulfilled(Failure(W.state[r.inputs[first]].error)))
       ELSE SettlePromise(W, r.promise, Fulfilled(Success(ListOf(values))))

\* asyncResult.ts 713: results.map((r) => r.waitForSettled()), from the k-th on
RECURSIVE WaitForAll(_, _, _, _, _)
WaitForAll(W, inputs, k, q, r) ==
    IF k > Len(inputs) THEN W
    ELSE WaitForAll(WaitForSettled(W, inputs[k], <<AllItemFrame(q, r, inputs, k)>>),
                    inputs, k + 1, q, r)

\* asyncResult.ts 705-728: AsyncResult.ensureAvailable(results), building
\* instance r, from promise q when the list is not empty
EnsureAvailable(W, inputs, q, r) ==
    IF Len(inputs) = 0
    THEN [W EXCEPT !.state[r] = Success(ListOf(<<>>)),
                   !.built[r] = Built("ensureAvailable", NoProm)]
    ELSE LET W1 == WaitForAll(W, inputs, 1, q, r)
             W2 == [W1 EXCEPT !.state[r] = Idle,
                              !.built[r] = [Built("ensureAvailable", q) EXCEPT !.inputs = inputs]]
         IN UpdateFromResultPromise(W2, r, q)

\* ------------------------------------------------------------ generators
\* A generator of the clients yields the instances of a list, one after the
\* other, and returns the list of the values it got: the input of the
\* generator function, if it has one, and the values it was resumed with.
GenReturn(vals) == ListOf(vals)

\* The frame of the async function of _runGeneratorProcessor at its await:
\* q is the promise of the action, r the instance it drives, rest the
\* instances the generator has still to yield after the one awaited, vals
\* the values the generator has got.
GenFrame(i, q, r, rest, vals) ==
    [Reaction("gen", i) EXCEPT !.promise = q, !.owner = r, !.inputs = rest, !.vals = vals]

\* asyncResult.ts 753-764: iterator.next(...) has returned: the generator is
\* done, or it has yielded the next instance.  The promise of the action
\* follows the promise of the processor (asyncResult.ts 790, 808).
GenNext(W, q, r, rest, vals) ==
    IF rest = <<>>
    THEN Enqueue(W, ForwardReaction(q), NoProm, Fulfilled(Success(GenReturn(vals))))
    ELSE ToResultPromise(W, Head(rest), <<GenFrame(Head(rest), q, r, Tail(rest), vals)>>)

\* the processor, had it resumed the generator whatever the yielded instance
\* settled to
GenStepWithoutAbort(W, r, res) ==
    GenNext([W EXCEPT !.built[r.owner].resumed = Append(@, res.state.value)],
            r.promise, r.owner, r.inputs, Append(r.vals, res.state.value))

\* asyncResult.ts 758-762: the processor after its await
GenStep(W, r, res) ==
    IF res.rejected THEN Enqueue(W, ForwardReaction(r.promise), NoProm, res)
    ELSE IF res.state.status = "error"
    THEN Enqueue(W, ForwardReaction(r.promise), NoProm, Fulfilled(Failure(res.state.error)))
    ELSE GenNext([W EXCEPT !.built[r.owner].resumed = Append(@, res.state.value)],
                 r.promise, r.owner, r.inputs, Append(r.vals, res.state.value))

\* asyncResult.ts 805-810: r.runInPlace(generatorFunc): the action runs the
\* generator up to its first yield, then r goes loading with the promise q
\* of the action; vals holds the input of the generator function
RunInPlace(W, r, q, yields, vals) ==
    UpdateFromResultPromise(GenNext(W, q, r, yields, vals), r, q)

\* asyncResult.ts 577-592: derivedFromParent(parent, generatorFunc), building
\* instance d; id names the listener entry
DerivedFromParent(W, parent, d, id, yields) ==
    LET W1 == [W EXCEPT !.state[d] = Idle,
                        !.built[d] = [Built("derivedGenerator", NoProm) EXCEPT
                                          !.from = parent, !.inputs = yields]]
        W2 == ListenWith(W1, parent, DerivedEntry(id, DefaultListenerOptions, d, yields))
    IN [W2 EXCEPT !.parentalLink[d] = [parent |-> parent, entry |-> id]]

\* asyncResult.ts 787-792: AsyncResult.run(generatorFunc), building instance r
Run(W, r, q, yields) ==
    LET W1 == [W EXCEPT !.state[r] = Idle,
                        !.built[r] = [Built("run", q) EXCEPT !.inputs = yields]]
    IN RunInPlace(W1, r, q, yields, <<>>)

\* One microtask.
RunReaction(W, job) ==
    LET r == job.reaction
        p == job.promise
        res == job.res
        \* then(onFulfilled) hands on to catch(), a microtask later, what
        \* onFulfilled throws
        OnFulfilledDone(U) ==
            IF U.exc
            THEN Enqueue([U EXCEPT !.exc = FALSE], [r EXCEPT !.kind = "catch"], p,
                         Rejected(ListenerError))
            ELSE U
        \* what the catch callback throws rejects a promise nobody handles
        Caught(U) ==
            IF U.exc THEN [U EXCEPT !.exc = FALSE, !.trace = Append(@, UnhandledEvent(p))]
            ELSE U
    IN CASE r.kind = "update" ->
                \* then(onFulfilled) hands a rejection on to catch(), a
                \* microtask later
                IF res.rejected THEN Enqueue(W, [r EXCEPT !.kind = "catch"], p, res)
                ELSE OnFulfilledDone(NoteSettled(UpdateCallback(W, r.target, p, res), r.target))
         [] r.kind = "catch" ->
                Caught(NoteSettled(UpdateCallback(W, r.target, p, res), r.target))
         [] r.kind = "stamp" -> StampCallback(W, r.target, p, res)
         [] r.kind = "wait" ->
                Continue(WaitCallback(W, r.target, res), r.then, NoProm, ResolvedWithItself)
         [] r.kind = "toResult" -> ToResult(W, r.target, r.then)
         [] r.kind = "await" -> [W EXCEPT !.trace = Append(@, AwaitEvent(W, r, res))]
         [] r.kind = "chain" -> ChainStep(W, r)
         [] r.kind = "forward" -> SettlePromise(W, r.promise, res)
         [] r.kind = "flatChain" -> FlatChainStep(W, r, res)
         \* asyncResult.ts 688-689: return nextSettled
         [] r.kind = "flatChainNext" -> SettlePromise(W, r.promise, res)
         [] r.kind = "allItem" -> AllItem(W, r)
         [] r.kind = "all" -> EnsureCallback(W, r)
         [] r.kind = "gen" -> GenStep(W, r, res)

\* The microtask queue is drained, first in, first out.
RECURSIVE RunJobs(_)
RunJobs(W) ==
    IF W.jobs = <<>> THEN W
    ELSE RunJobs(RunReaction([W EXCEPT !.jobs = Tail(@)], Head(W.jobs)))

\* ------------------------------------------------------ KeyedAsyncCache
\* The parameters a client passes: a number, the string of its digits, an object.
NumberParam(n) == [type |-> "number", v |-> n]
StringParam(n) == [type |-> "string", v |-> n]
ObjectParam(n) == [type |-> "object", v |-> n]
Params == {NumberParam(1), StringParam(1), ObjectParam(1)}
OneKeyParams == {NumberParam(1), StringParam(1)}

\* String(n) for a small number n, and the string a StringParam stands for
Digits == <<"0", "1", "2", "3", "4", "5", "6", "7", "8", "9">>
NumberToString(n) ==
    IF n < 10 THEN Digits[n + 1] ELSE Digits[(n \div 10) + 1] \o Digits[(n % 10) + 1]

\* JSON.stringify({id: n})
JSONStringify(n) == "{\"id\":" \o NumberToString(n) \o "}"

\* cache.ts 18-23: defaultParamsToKey
defaultParamsToKey(params) ==
    IF params.type = "object" THEN JSONStringify(params.v) ELSE NumberToString(params.v)

Keys == {defaultParamsToKey(q) : q \in Params}

\* cache.ts 4-6: KeyedAsyncCacheRefetchOptions
Policies == {"refetch", "if-error", "no-refetch"}

\* cache.ts 8-14: CacheItem; an item that does not exist.  fetcherParams is
\* stored and never read, and is left out.  History: key is the key the item
\* was stored under, firstProm and lastProm are the promises of the item's
\* first and latest fetch, settledAt is the time its AsyncResult last settled.
NoItem == [result |-> NoInst, valid |-> FALSE, lastFetched |-> Undefined, ttl |-> Undefined,
           key |-> "", firstProm |-> NoProm, lastProm |-> NoProm, settledAt |-> Undefined]

\* cache.ts 51-58: makeCacheItem(result, fetcherParams) with ttl ?? this._cacheTTL
makeCacheItem(result, key, p) ==
    [result |-> result, valid |-> TRUE, lastFetched |-> Undefined, ttl |-> cacheTTL,
     key |-> key, firstProm |-> p, lastProm |-> p, settledAt |-> Undefined]

\* the comparison a > b of two IEEE numbers, b possibly Infinity
GreaterThan(a, b) == b # Infinity /\ a > b

\* shouldRefetch, had it read an absent lastFetched as time 0
shouldRefetchFromEpoch(W, item, policy) ==
    IF ~item.valid THEN TRUE
    ELSE IF policy = "refetch" THEN TRUE
    ELSE IF policy = "if-error" THEN W.state[item.result].status = "error"
    ELSE item.ttl # Undefined
            /\ GreaterThan(now - (IF item.lastFetched = Undefined THEN 0 ELSE item.lastFetched),
                           item.ttl)

\* cache.ts 60-77: shouldRefetch(existingResult, refetch)
shouldRefetch(W, item, policy) ==
    IF ~item.valid THEN TRUE
    ELSE IF policy = "refetch" THEN TRUE
    ELSE IF policy = "if-error" THEN W.state[item.result].status = "error"
    ELSE IF item.ttl # Undefined /\ item.lastFetched # Undefined
              /\ GreaterThan(now - item.lastFetched, item.ttl) THEN TRUE
    ELSE FALSE

\* cache.ts 79-89: updateOrCreateCacheItemFromParams(params, cacheItem?).
\* p is the promise Promise.resolve(this._fetcher(params)); newInst is the new
\* AsyncResult, and so names the new item, when itemId = NoInst.
updateOrCreateCacheItemFromParams(W, key, itemId, p, newInst) ==
    LET W0 == [W EXCEPT !.promises[p] = PendingPromise("result")]
        W1 == IF itemId # NoInst
              THEN UpdateFromResultPromise(W0, W0.items[itemId].result, p)
              ELSE \* AsyncResult.fromResultPromise(promise), asyncResult.ts 362-366
                   UpdateFromResultPromise([W0 EXCEPT !.state[newInst] = Idle,
                                                      !.built[newInst] = Built("fromResultPromise", p)],
                                           newInst, p)
        id == IF itemId # NoInst THEN itemId ELSE newInst
        W2 == IF itemId # NoInst THEN [W1 EXCEPT !.items[id].lastProm = p]
              ELSE [W1 EXCEPT !.items[id] = makeCacheItem(newInst, key, p)]
    IN [W2 EXCEPT !.promises[p].reactions = Append(@, StampReaction(id))]

\* cache.ts 131-138: anyLoading()
anyLoading ==
    \E k \in Keys : cacheMap[k] # NoInst /\ state[items[cacheMap[k]].result].status = "loading"

NumProm == Cardinality({p \in PromIds : promises[p].status # "none"})

\* Written back by every action that ran program code on a World.
Commit(W) ==
    /\ state' = W.state
    /\ listeners' = W.listeners
    /\ promises' = W.promises
    /\ items' = W.items
    /\ parentalLink' = W.parentalLink
    /\ built' = W.built
    /\ collection' = W.coll
    /\ trace' = W.trace

NoOp == [op |-> "none"]

\* cache.ts 97-112: get(params, refetch).  The history record of the step
\* keeps what the claims ask about the entry as get() found it.
Get(params, policy) ==
    LET key == defaultParamsToKey(params)
        hit == cacheMap[key] # NoInst
        item == IF hit THEN items[cacheMap[key]] ELSE NoItem
        fetch == ~hit \/ shouldRefetch(World, item, policy)
        p == NumProm + 1
        newInst == nInst + 1
        W == IF fetch
             THEN updateOrCreateCacheItemFromParams(World, key, cacheMap[key], p, newInst)
             ELSE World
        after == IF hit THEN W.items[cacheMap[key]] ELSE W.items[newInst]
        ret == after.result
        before == IF hit THEN state[item.result] ELSE NotConstructed
    IN /\ fetch => NumProm < budget.promises
       /\ ~hit => nInst < budget.instances
       /\ Commit(W)
       /\ cacheMap' = IF hit THEN cacheMap ELSE [cacheMap EXCEPT ![key] = newInst]
       /\ nInst' = IF hit THEN nInst ELSE newInst
       /\ fetches' = IF fetch THEN fetches + 1 ELSE fetches
       /\ returned' = returned \cup {ret}
       /\ lastRet' = [lastRet EXCEPT ![key] = ret]
       /\ last' = [op |-> "get", key |-> key, policy |-> policy, hit |-> hit, ret |-> ret,
                   fetched |-> fetches' - fetches, valid |-> item.valid,
                   status |-> before.status,
                   inFirstFetch |-> before = Loading(item.firstProm, 0)
                                      /\ promises[item.firstProm].status = "pending",
                   lastFetchSettled |-> hit /\ promises[item.lastProm].status = "settled",
                   ttl |-> item.ttl, elapsed |-> now - item.settledAt,
                   prev |-> lastRet[key], new |-> ret \notin returned]
       /\ UNCHANGED <<now, nListen, cacheTTL, clients, budget>>

\* what the invalidating operations record: the cache and its results as
\* they were found
Invalidation(op) ==
    [op |-> op, cacheMap |-> cacheMap, state |-> state, promises |-> promises,
     fetches |-> fetches]

\* invalidateKey, had it deleted the entry
invalidateKeyByDelete(key) ==
    /\ cacheMap' = [cacheMap EXCEPT ![key] = NoInst]
    /\ last' = Invalidation("invalidateKey")
    /\ trace' = <<>>
    /\ UNCHANGED <<collection, state, listeners, promises, parentalLink, built, now, nInst, nListen, cacheTTL, items,
                   clients, budget, fetches, returned, lastRet>>

\* cache.ts 151-156: invalidateKey(key)
invalidateKey(key) ==
    /\ items' = IF cacheMap[key] # NoInst
                THEN [items EXCEPT ![cacheMap[key]].valid = FALSE]
                ELSE items
    /\ last' = Invalidation("invalidateKey")
    /\ trace' = <<>>
    /\ UNCHANGED <<collection, state, listeners, promises, parentalLink, built, now, nInst, nListen, cacheTTL, cacheMap,
                   clients, budget, fetches, returned, lastRet>>

\* cache.ts 162-165: invalidateParams(params)
invalidateParams(params) == invalidateKey(defaultParamsToKey(params))

\* cache.ts 170-174: invalidateAll()
invalidateAll ==
    /\ items' = [i \in InstIds |->
                    IF \E k \in Keys : cacheMap[k] = i
                    THEN [items[i] EXCEPT !.valid = FALSE] ELSE items[i]]
    /\ last' = Invalidation("invalidateAll")
    /\ trace' = <<>>
    /\ UNCHANGED <<collection, state, listeners, promises, parentalLink, built, now, nInst, nListen, cacheTTL, cacheMap,
                   clients, budget, fetches, returned, lastRet>>

\* clear, had it marked the entries invalid instead of removing them
clearByInvalidate ==
    /\ items' = [i \in InstIds |->
                    IF \E k \in Keys : cacheMap[k] = i
                    THEN [items[i] EXCEPT !.valid = FALSE] ELSE items[i]]
    /\ lastRet' = [k \in Keys |-> NoInst]
    /\ last' = [op |-> "clear"]
    /\ trace' = <<>>
    /\ UNCHANGED <<collection, state, listeners, promises, parentalLink, built, now, nInst, nListen, cacheTTL,
                   cacheMap, clients, budget, fetches, returned>>

\* cache.ts 143-145: clear()
clear ==
    /\ cacheMap' = [k \in Keys |-> NoInst]
    /\ lastRet' = [k \in Keys |-> NoInst]
    /\ last' = [op |-> "clear"]
    /\ trace' = <<>>
    /\ UNCHANGED <<collection, state, listeners, promises, parentalLink, built, now, nInst, nListen, cacheTTL,
                   items, clients, budget, fetches, returned>>

\* A pending promise settles and its reactions run.
Settle(p, outcome) ==
    /\ promises[p].status = "pending"
    /\ promises[p].kind = "value" => outcome # "error"
    /\ promises[p].kind \in {"result", "value"}
    /\ Commit(RunJobs(SettlePromise(World, p, Settlement(p, promises[p].kind, outcome))))
    /\ last' = [op |-> "settle", promise |-> p, outcome |-> outcome,
                kind |-> promises[p].kind,
                targets |-> {promises[p].reactions[n].target :
                                n \in {m \in DOMAIN promises[p].reactions :
                                          promises[p].reactions[m].kind = "update"}}]
    /\ UNCHANGED <<now, nInst, nListen, cacheTTL, cacheMap, clients, budget, fetches,
                   returned, lastRet>>

\* The wall clock advances.
Tick ==
    /\ now < MaxTime
    /\ now' = now + 1
    /\ last' = [op |-> "tick"]
    /\ trace' = <<>>
    /\ UNCHANGED <<collection, state, listeners, promises, parentalLink, built, nInst, nListen, cacheTTL, cacheMap,
                   items, clients, budget, fetches, returned, lastRet>>

\* listen, had it called the listener whatever options.immediate says
listenAlwaysImmediate(i, options) ==
    /\ state[i].status # "none"
    /\ Commit(Listen(World, i, nListen + 1, [options EXCEPT !.immediate = TRUE], NoInst))
    /\ nListen' = nListen + 1
    /\ last' = [op |-> "listen", inst |-> i, entry |-> nListen + 1, options |-> options]
    /\ UNCHANGED <<now, nInst, cacheTTL, cacheMap, clients, budget, fetches, returned, lastRet>>

\* a client calls listen(listener, options) with a callback of its own
listen(i, options) ==
    /\ state[i].status # "none"
    /\ Commit(Listen(World, i, nListen + 1, options, NoInst))
    /\ nListen' = nListen + 1
    /\ last' = [op |-> "listen", inst |-> i, entry |-> nListen + 1, options |-> options]
    /\ UNCHANGED <<now, nInst, cacheTTL, cacheMap, clients, budget, fetches, returned, lastRet>>

\* the options the clients of the cache listen with: none given, and
\* { immediate: true }
CacheListenerOptions == {DefaultListenerOptions, Options(TRUE, FALSE, 0)}

\* a client of the cache listens to a result the cache gave it
CacheListen(i, options) ==
    /\ nListen = 0
    /\ i \in returned
    /\ listen(i, options)

\* what one behaviour may create
Budget(instances, proms, ls) == [instances |-> instances, promises |-> proms, listeners |-> ls]

\* cache.ts 45-49: new KeyedAsyncCache(fetcher, paramsToKey, cacheTTL = Infinity)
NewCache(ps, n) ==
    /\ state = [i \in InstIds |-> NotConstructed]
    /\ listeners = [i \in InstIds |-> <<>>]
    /\ promises = [p \in PromIds |-> NoPromise]
    /\ now = 0
    /\ nInst = 0
    /\ nListen = 0
    /\ cacheTTL \in {TTLMs, Infinity}
    /\ cacheMap = [k \in Keys |-> NoInst]
    /\ items = [i \in InstIds |-> NoItem]
    /\ parentalLink = [i \in InstIds |-> NoLink]
    /\ built = [i \in InstIds |-> NotBuilt]
    /\ clients = ps
    /\ budget = Budget(MaxInst, n, 1)
    /\ fetches = 0
    /\ returned = {}
    /\ lastRet = [k \in Keys |-> NoInst]
    /\ collection = NewCollection
    /\ last = NoOp
    /\ trace = <<>>

Init == NewCache(Params, MaxProm)

InitOneKey == NewCache(OneKeyParams, MaxPromOneKey)

Next ==
    \/ \E q \in clients, policy \in Policies : Get(q, policy)
    \/ \E q \in clients : invalidateKey(defaultParamsToKey(q))
    \/ \E q \in clients : invalidateParams(q)
    \/ invalidateAll
    \/ clear
    \/ \E p \in PromIds, outcome \in Outcomes : Settle(p, outcome)
    \/ Tick
    \/ \E i \in InstIds, options \in CacheListenerOptions : CacheListen(i, options)

\* a cache whose clients use two keys
Spec == Init /\ [][Next]_vars

\* a cache whose clients use one key, and fetch it more often
SpecOneKey == InitOneKey /\ [][Next]_vars

\* --------------------------------------------------- clients of AsyncResult
\* the values and errors the clients pass
Values == {7}
Errors == {ErrorBase("E", 7)}
Progresses == {1}

CacheUnchanged ==
    UNCHANGED <<cacheTTL, cacheMap, clients, budget, fetches, returned, lastRet>>

\* what a call on instance i records
Call(op, i) == [op |-> op, inst |-> i]

\* asyncResult.ts 86-88: new AsyncResult(state), state || { status: 'idle' }
Construct(by, st) ==
    /\ nInst < budget.instances
    /\ Commit([World EXCEPT !.state[nInst + 1] = st, !.built[nInst + 1] = Built(by, NoProm)])
    /\ nInst' = nInst + 1
    /\ last' = Call(by, nInst + 1)
    /\ UNCHANGED <<now, nListen>>
    /\ CacheUnchanged

\* new AsyncResult()
new == Construct("new", Idle)

\* asyncResult.ts 204-206: AsyncResult.ok(value)
ok(value) == Construct("ok", Success(value))

\* asyncResult.ts 213-215: AsyncResult.err(error)
err(error) == Construct("err", Failure(error))

\* a factory that builds an instance around a new pending promise
ConstructFrom(by, kind, reportsProgress) ==
    LET i == nInst + 1
        p == NumProm + 1
        W0 == [World EXCEPT !.state[i] = Idle, !.built[i] = Built(by, p),
                            !.promises[p] = PendingPromise(kind)]
    IN /\ nInst < budget.instances
       /\ NumProm < budget.promises
       /\ Commit(IF by = "fromAction" THEN UpdateFromAction(W0, i, p, reportsProgress)
                 ELSE IF by = "fromValuePromise" THEN UpdateFromValuePromise(W0, i, p)
                 ELSE UpdateFromResultPromise(W0, i, p))
       /\ nInst' = i
       /\ last' = Call(by, i)
       /\ UNCHANGED <<now, nListen>>
       /\ CacheUnchanged

\* asyncResult.ts 362-366: AsyncResult.fromResultPromise(promise)
fromResultPromise == ConstructFrom("fromResultPromise", "result", FALSE)

\* asyncResult.ts 274-278: AsyncResult.fromValuePromise(promise)
fromValuePromise == ConstructFrom("fromValuePromise", "value", FALSE)

\* asyncResult.ts 607-609: AsyncResult.fromAction(action)
fromAction(reportsProgress) == ConstructFrom("fromAction", "result", reportsProgress)

\* asyncResult.ts 627-634: AsyncResult.makeLazyAction(action); the instance
\* made is the result of the LazyAction
makeLazyAction == Construct("makeLazyAction", Idle)

\* asyncResult.ts 629-631: a client calls trigger() of the LazyAction whose
\* result is instance i.  Every invocation of the action returns a new
\* promise, kept in runs; the action may report progress before it returns.
trigger(i, reportsProgress) ==
    LET p == NumProm + 1
        W0 == [World EXCEPT !.promises[p] = PendingPromise("result"),
                            !.built[i].runs = Append(@, p)]
    IN /\ built[i].by = "makeLazyAction"
       /\ NumProm < budget.promises
       /\ Commit(UpdateFromAction(W0, i, p, reportsProgress))
       /\ last' = [op |-> "trigger", inst |-> i, promise |-> p, old |-> state[i]]
       /\ UNCHANGED <<now, nInst, nListen>>
       /\ CacheUnchanged

\* a client calls updateFromValue(value) (asyncResult.ts 235-238)
updateFromValue(i, value) ==
    /\ state[i].status # "none"
    /\ Commit(UpdateFromValue([World EXCEPT !.built[i].touched = TRUE], i, value))
    /\ last' = Call("updateFromValue", i)
    /\ UNCHANGED <<now, nInst, nListen>>
    /\ CacheUnchanged

\* a client calls updateFromError(error) (asyncResult.ts 245-248)
updateFromError(i, error) ==
    /\ state[i].status # "none"
    /\ Commit(UpdateFromError([World EXCEPT !.built[i].touched = TRUE], i, error))
    /\ last' = Call("updateFromError", i)
    /\ UNCHANGED <<now, nInst, nListen>>
    /\ CacheUnchanged

\* a client, or the action given to fromAction, calls updateProgress(progress)
updateProgress(i, progress) ==
    /\ state[i].status # "none"
    /\ Commit(UpdateProgress(World, i, progress))
    /\ last' = [op |-> "updateProgress", inst |-> i, old |-> state[i], progress |-> progress]
    /\ UNCHANGED <<now, nInst, nListen>>
    /\ CacheUnchanged

\* a client starts a new cycle with updateFromResultPromise(promise)
updateFromResultPromise(i) ==
    LET p == NumProm + 1
        W0 == [World EXCEPT !.built[i].touched = TRUE, !.promises[p] = PendingPromise("result")]
    IN /\ state[i].status # "none"
       /\ NumProm < budget.promises
       /\ Commit(UpdateFromResultPromise(W0, i, p))
       /\ last' = Call("updateFromResultPromise", i)
       /\ UNCHANGED <<now, nInst, nListen>>
       /\ CacheUnchanged

\* a client registers a callback of its own with any options
clientListen(i, options) ==
    /\ nListen < budget.listeners
    /\ listen(i, options)

\* the instances whose state instance i is copied to by a mirror
MirrorTargets(i) ==
    {listeners[i][n].mirror : n \in DOMAIN listeners[i]} \ {NoInst}

RECURSIVE Feeds(_, _, _)
Feeds(a, b, fuel) ==
    \/ b \in MirrorTargets(a)
    \/ fuel > 0 /\ \E c \in MirrorTargets(a) : Feeds(c, b, fuel - 1)

\* the options the clients mirror with: the default, and {}
MirrorOptions == {DefaultListenerOptions, Options(FALSE, FALSE, 0)}

\* a client calls i.mirror(other, options).  A cycle of mirrors would recurse
\* until the stack overflows; the clients build none.
mirror(i, other, options) ==
    /\ state[i].status # "none" /\ state[other].status # "none"
    /\ i # other /\ ~Feeds(i, other, MaxInst)
    /\ nListen < budget.listeners
    /\ Commit(Mirror([World EXCEPT !.built[i].touched = TRUE], i, other, nListen + 1, options))
    /\ nListen' = nListen + 1
    /\ last' = [op |-> "mirror", inst |-> i, other |-> other, entry |-> nListen + 1,
                options |-> options]
    /\ UNCHANGED <<now, nInst>>
    /\ CacheUnchanged

\* a client calls i.mirrorUntilSettled(other, options)
mirrorUntilSettled(i, other, options) ==
    /\ state[i].status # "none" /\ state[other].status # "none"
    /\ i # other /\ ~Feeds(i, other, MaxInst)
    /\ nListen < budget.listeners
    /\ Commit(MirrorUntilSettled([World EXCEPT !.built[i].touched = TRUE], i, other,
                                 nListen + 1, options))
    /\ nListen' = nListen + 1
    /\ last' = [op |-> "mirrorUntilSettled", inst |-> i, other |-> other,
                entry |-> nListen + 1, options |-> options]
    /\ UNCHANGED <<now, nInst>>
    /\ CacheUnchanged

\* a client calls i.detachFromParent()
detachFromParent(i) ==
    /\ state[i].status # "none"
    /\ Commit(DetachFromParent(World, i))
    /\ last' = [op |-> "detachFromParent", inst |-> i, other |-> parentalLink[i].parent,
                entry |-> parentalLink[i].entry]
    /\ UNCHANGED <<now, nInst, nListen>>
    /\ CacheUnchanged

\* a client calls i.listenUntilSettled(listener, options), or one of
\* i.onSuccessOnce(callback) (once = "success") and i.onErrorOnce(callback)
\* (once = "error"), which pass no options (asyncResult.ts 463-469, 489-495)
listenUntilSettled(i, options, once) ==
    /\ state[i].status # "none"
    /\ nListen < budget.listeners
    /\ once # "none" => options = DefaultListenerOptions
    /\ Commit(ListenUntilSettled(World, i, nListen + 1, options, NoInst, once))
    /\ nListen' = nListen + 1
    /\ last' = [op |-> "listenUntilSettled", inst |-> i, entry |-> nListen + 1,
                options |-> options, once |-> once, old |-> state[i]]
    /\ UNCHANGED <<now, nInst>>
    /\ CacheUnchanged

\* a client calls collection.add(key, i, removeOnSettle)
collectionAdd(key, i, removeOnSettle) ==
    /\ state[i].status # "none"
    /\ nListen < budget.listeners
    /\ Commit(Add(World, key, i, removeOnSettle, nListen + 1))
    /\ nListen' = nListen + 1
    /\ last' = [op |-> "add", key |-> key, inst |-> i, entry |-> nListen + 1,
                removeOnSettle |-> removeOnSettle, ret |-> TRUE]
    /\ UNCHANGED <<now, nInst>>
    /\ CacheUnchanged

\* a client calls collection.remove(key); ret is what the call returns
collectionRemove(key) ==
    /\ Commit(Remove(World, key))
    /\ last' = [op |-> "remove", key |-> key, inst |-> collection.list[key].result,
                entry |-> collection.list[key].entry, removeOnSettle |-> FALSE,
                ret |-> collection.list[key] # NoTask]
    /\ UNCHANGED <<now, nInst, nListen>>
    /\ CacheUnchanged

\* a client calls collection.clear()
collectionClear ==
    /\ Commit(ClearCollection(World))
    /\ last' = [op |-> "clear"]
    /\ UNCHANGED <<now, nInst, nListen>>
    /\ CacheUnchanged

\* the delays the clients debounce with
DebounceDelays == {DebounceMs, Infinity}

\* asyncResult.ts 559-563: a client calls i.toDebounced(ms); the options
\* passed to mirror() are { debounceLoadingMs: ms }
toDebounced(i, ms) ==
    LET d == nInst + 1
        W0 == [World EXCEPT !.state[d] = Idle, !.built[d] = Built("toDebounced", NoProm)]
    IN /\ state[i].status # "none"
       /\ nInst < budget.instances
       /\ nListen < budget.listeners
       /\ Commit(Mirror(W0, d, i, nListen + 1, Options(FALSE, FALSE, ms)))
       /\ nInst' = d
       /\ nListen' = nListen + 1
       /\ last' = [op |-> "toDebounced", inst |-> d, other |-> i, entry |-> nListen + 1]
       /\ UNCHANGED now
       /\ CacheUnchanged

\* a client calls the closure that listen() or mirror() returned
unsubscribe(i, id) ==
    /\ \E n \in DOMAIN listeners[i] : listeners[i][n].id = id
    /\ Commit(Unlisten(World, i, id))
    /\ last' = Call("unsubscribe", i)
    /\ UNCHANGED <<now, nInst, nListen>>
    /\ CacheUnchanged

\* async calls of the library that wait for a promise to settle
RECURSIVE NumAwaitUpTo(_)
NumAwaitUpTo(p) ==
    IF p = 0 THEN 0
    ELSE NumAwaitUpTo(p - 1)
         + Len(SelectSeq(promises[p].reactions, LAMBDA r : r.kind = "wait"))

NumAwait == NumAwaitUpTo(Cardinality(PromIds))

\* a client calls fn() on instance i and awaits the promise; the call runs
\* to its first await and the microtasks it queued follow
AwaitCall(fn, i, W) ==
    /\ state[i].status # "none"
    /\ state[i].status = "loading" => NumAwait < MaxAwait
    /\ Commit(RunJobs(W))
    /\ last' = [op |-> fn, inst |-> i, old |-> state[i]]
    /\ UNCHANGED <<now, nInst, nListen>>
    /\ CacheUnchanged

\* await i.waitForSettled()
waitForSettled(i) ==
    AwaitCall("waitForSettled", i,
              WaitForSettled(World, i, <<AwaitFrame("waitForSettled", i)>>))

\* await i.toResultPromise()
toResultPromise(i) ==
    AwaitCall("toResultPromise", i,
              ToResultPromise(World, i, <<AwaitFrame("toResultPromise", i)>>))

\* what a call that derives a new instance from instance a records
Derive(op, a, r) == [op |-> op, inst |-> r, from |-> a, old |-> state[a]]

\* r = a.chain(fn); a promise fn returns is one it holds already
chain(a, fn) ==
    LET q == NumProm + 1
        p2 == IF fn = "promise" THEN NumProm + 2 ELSE NoProm
        r == nInst + 1
        W0 == [World EXCEPT !.promises[q] = PendingPromise("async")]
        W1 == IF fn = "promise" THEN [W0 EXCEPT !.promises[p2] = PendingPromise("result")]
              ELSE W0
    IN /\ state[a].status # "none"
       /\ nInst < budget.instances
       /\ NumProm + (IF fn = "promise" THEN 2 ELSE 1) <= budget.promises
       /\ state[a].status = "loading" => NumAwait < MaxAwait
       /\ Commit(RunJobs(Chain(W1, a, q, r, fn, p2)))
       /\ nInst' = r
       /\ last' = Derive("chain", a, r)
       /\ UNCHANGED <<now, nListen>>
       /\ CacheUnchanged

\* r = a.flatChain(fn), where fn returns the instance n
flatChain(a, n) ==
    LET q == NumProm + 1
        r == nInst + 1
        W0 == [World EXCEPT !.promises[q] = PendingPromise("async")]
    IN /\ state[a].status # "none" /\ state[n].status # "none"
       /\ nInst < budget.instances
       /\ NumProm < budget.promises
       /\ state[a].status = "loading" => NumAwait < MaxAwait
       /\ Commit(RunJobs(FlatChain(W0, a, q, r, n)))
       /\ nInst' = r
       /\ last' = Derive("flatChain", a, r)
       /\ UNCHANGED <<now, nListen>>
       /\ CacheUnchanged

\* the lists of constructed instances the clients pass to ensureAvailable
InputLists ==
    UNION {[1..n -> {i \in InstIds : state[i].status # "none"}] : n \in 0..MaxInputs}

\* r = AsyncResult.ensureAvailable(inputs)
ensureAvailable(inputs) ==
    LET q == NumProm + 1
        r == nInst + 1
        loading == {k \in DOMAIN inputs : state[inputs[k]].status = "loading"}
        W0 == IF Len(inputs) = 0 THEN World
              ELSE [World EXCEPT !.promises[q] = PendingPromise("async")]
    IN /\ nInst < budget.instances
       /\ Len(inputs) > 0 => NumProm < budget.promises
       /\ NumAwait + Cardinality(loading) <= MaxAwait
       /\ Commit(RunJobs(EnsureAvailable(W0, inputs, q, r)))
       /\ nInst' = r
       /\ last' = [op |-> "ensureAvailable", inst |-> r, inputs |-> inputs]
       /\ UNCHANGED <<now, nListen>>
       /\ CacheUnchanged

\* r = AsyncResult.run(generatorFunc) with a generator that yields the
\* instances of the list
run(yields) ==
    LET q == NumProm + 1
        r == nInst + 1
        W0 == [World EXCEPT !.promises[q] = PendingPromise("async")]
    IN /\ nInst < budget.instances
       /\ NumProm < budget.promises
       /\ NumAwait < MaxAwait
       /\ Commit(RunJobs(Run(W0, r, q, yields)))
       /\ nInst' = r
       /\ last' = [op |-> "run", inst |-> r, inputs |-> yields]
       /\ UNCHANGED <<now, nListen>>
       /\ CacheUnchanged

\* listener entries of derivedFromParent, on all instances
RECURSIVE NumDerivedUpTo(_)
NumDerivedUpTo(i) ==
    IF i = 0 THEN 0
    ELSE NumDerivedUpTo(i - 1)
         + Len(SelectSeq(listeners[i], LAMBDA en : en.derived # NoInst))

\* every derived instance can start one more run
Room == NumProm + NumDerivedUpTo(Cardinality(InstIds)) <= budget.promises

\* the generators the clients derive with: they yield the instances of a list
\* d = parent.derivedGenerator(generatorFunc)
derivedGenerator(parent, yields) ==
    LET d == nInst + 1
        id == nListen + 1
    IN /\ state[parent].status # "none"
       /\ nInst < budget.instances
       /\ nListen < budget.listeners
       /\ NumProm + NumDerivedUpTo(Cardinality(InstIds)) < budget.promises
       /\ Commit(RunJobs(DerivedFromParent(World, parent, d, id, yields)))
       /\ nInst' = d
       /\ nListen' = id
       /\ last' = [op |-> "derivedGenerator", inst |-> d, from |-> parent, old |-> state[parent]]
       /\ UNCHANGED now
       /\ CacheUnchanged

NoCache(b) ==
    /\ state = [i \in InstIds |-> NotConstructed]
    /\ listeners = [i \in InstIds |-> <<>>]
    /\ promises = [p \in PromIds |-> NoPromise]
    /\ now = 0
    /\ nInst = 0
    /\ nListen = 0
    /\ cacheTTL = Infinity
    /\ cacheMap = [k \in Keys |-> NoInst]
    /\ items = [i \in InstIds |-> NoItem]
    /\ parentalLink = [i \in InstIds |-> NoLink]
    /\ built = [i \in InstIds |-> NotBuilt]
    /\ clients = {}
    /\ budget = b
    /\ fetches = 0
    /\ returned = {}
    /\ lastRet = [k \in Keys |-> NoInst]
    /\ collection = NewCollection
    /\ last = NoOp
    /\ trace = <<>>

InitAsync == NoCache(Budget(MaxInstAsync, MaxProm, MaxListeners))

NextAsync ==
    \/ new
    \/ \E value \in Values : ok(value)
    \/ \E error \in Errors : err(error)
    \/ fromResultPromise
    \/ fromValuePromise
    \/ \E reportsProgress \in BOOLEAN : fromAction(reportsProgress)
    \/ \E i \in InstIds, value \in Values : updateFromValue(i, value)
    \/ \E i \in InstIds, error \in Errors : updateFromError(i, error)
    \/ \E i \in InstIds, progress \in Progresses : updateProgress(i, progress)
    \/ \E i \in InstIds : updateFromResultPromise(i)
    \/ \E i \in InstIds, options \in ListenerOptions : clientListen(i, options)
    \/ \E i \in InstIds, id \in ListenerIds : unsubscribe(i, id)
    \/ \E p \in PromIds, outcome \in Outcomes : Settle(p, outcome)
    \/ Tick

\* clients that use one AsyncResult directly
SpecAsync == InitAsync /\ [][NextAsync]_vars

InitMirror == NoCache(Budget(MaxInst, MaxPromMirror, MaxListenersMirror))

NextMirror ==
    \/ new
    \/ \E i \in InstIds, value \in Values : updateFromValue(i, value)
    \/ \E i \in InstIds, error \in Errors : updateFromError(i, error)
    \/ \E i \in InstIds, progress \in Progresses : updateProgress(i, progress)
    \/ \E i \in InstIds : updateFromResultPromise(i)
    \/ \E i \in InstIds, options \in MirrorOptions : clientListen(i, options)
    \/ \E i, other \in InstIds, options \in MirrorOptions : mirror(i, other, options)
    \/ \E i \in InstIds, ms \in DebounceDelays : toDebounced(i, ms)
    \/ \E p \in PromIds, outcome \in Outcomes : Settle(p, outcome)

\* clients that mirror one AsyncResult into another
SpecMirror == InitMirror /\ [][NextMirror]_vars

\* listenUntilSettled with a listener of the client, onSuccessOnce, onErrorOnce
Onces == {"none", "success", "error"}

InitLink == NoCache(Budget(MaxInst, MaxPromLink, MaxListenersLink))

NextLink ==
    \/ new
    \/ \E i \in InstIds, value \in Values : updateFromValue(i, value)
    \/ \E i \in InstIds, error \in Errors : updateFromError(i, error)
    \/ \E i \in InstIds, progress \in Progresses : updateProgress(i, progress)
    \/ \E i \in InstIds : updateFromResultPromise(i)
    \/ \E i, other \in InstIds : mirror(i, other, DefaultListenerOptions)
    \/ \E i, other \in InstIds : mirrorUntilSettled(i, other, DefaultListenerOptions)
    \/ \E i \in InstIds, once \in Onces :
            listenUntilSettled(i, DefaultListenerOptions, once)
    \/ \E i \in InstIds : detachFromParent(i)
    \/ \E p \in PromIds, outcome \in Outcomes : Settle(p, outcome)

\* clients that mirror one AsyncResult into another, for good or until it is
\* settled, and detach the copy
SpecLink == InitLink /\ [][NextLink]_vars

InitLazy == NoCache(Budget(MaxInst, MaxProm, MaxListenersAwait))

NextLazy ==
    \/ makeLazyAction
    \/ \E i \in InstIds, reportsProgress \in BOOLEAN : trigger(i, reportsProgress)
    \/ \E i \in InstIds, progress \in Progresses : updateProgress(i, progress)
    \/ \E i \in InstIds, options \in ListenerOptions : clientListen(i, options)
    \/ \E p \in PromIds, outcome \in Outcomes : Settle(p, outcome)

\* clients that make lazy actions, trigger them and listen to their results
SpecLazy == InitLazy /\ [][NextLazy]_vars

InitColl == NoCache(Budget(MaxInst, MaxPromColl, MaxListenersColl))

NextColl ==
    \/ new
    \/ \E i \in InstIds, value \in Values : updateFromValue(i, value)
    \/ \E i \in InstIds : updateFromResultPromise(i)
    \/ \E key \in CollKeys, i \in InstIds, removeOnSettle \in BOOLEAN :
            collectionAdd(key, i, removeOnSettle)
    \/ \E key \in CollKeys : collectionRemove(key)
    \/ collectionClear
    \/ \E p \in PromIds, outcome \in Outcomes : Settle(p, outcome)

\* clients that track AsyncResults in one AsyncResultCollection
SpecColl == InitColl /\ [][NextColl]_vars

\* ------------------------------------------------------------- Result
\* A Result is its state (result.ts 7-9, 12-16).  The Results the clients
\* hold, the functions they chain (Apply) and the lists their generators
\* yield; a generator returns the list of the values it was resumed with.
ResultInputs == {Success(1), Success(2), Failure(ErrorBase("E", 1)), Failure(ErrorBase("E", 2))}
ResultFns == {"ok", "err"}
RECURSIVE ListsUpTo(_, _)
ListsUpTo(S, n) ==
    IF n = 0 THEN {<<>>}
    ELSE LET shorter == ListsUpTo(S, n - 1)
         IN shorter \cup {Append(l, x) : l \in shorter, x \in S}
YieldLists == ListsUpTo(ResultInputs, MaxYields)

\* Result.run, had it skipped the errors the generator yields
RunLoopSkippingErrors(ys, vals) ==
    LET oks == SelectSeq(ys, LAMBDA y : y.status = "success")
        all == vals \o [n \in DOMAIN oks |-> oks[n].value]
    IN [state |-> Success(GenReturn(all)), resumed |-> all]

\* result.ts 211-219: the loop of Result.run from an iterator.next() on; ys
\* are the Results the generator has still to yield, vals the values it was
\* resumed with.  A generator that has no more to yield returns.
RECURSIVE RunLoop(_, _)
RunLoop(ys, vals) ==
    IF ys = <<>> THEN [state |-> Success(GenReturn(vals)), resumed |-> vals]
    ELSE LET yielded == Head(ys)
         IN IF yielded.status = "error"
            THEN [state |-> Failure(yielded.error), resumed |-> vals]
            ELSE RunLoop(Tail(ys), Append(vals, yielded.value))

\* result.ts 207-220: Result.run(generator)
ResultRun(ys) == RunLoop(ys, <<>>)

\* A Result in a chain of calls, with the invocations made so far: the
\* position of the function in the chain and its argument.
Chained(st) == [state |-> st, calls |-> <<>>]

\* flatChain, had it invoked fn on every Result
ResultFlatChainWithoutShortCircuit(R, k, fn) ==
    [state |-> Apply(fn, R.state.value),
     calls |-> Append(R.calls, [fn |-> k, arg |-> R.state.value])]

\* result.ts 163-168: flatChain(fn); fn is the k-th function of the chain
ResultFlatChain(R, k, fn) ==
    IF R.state.status = "success"
    THEN [state |-> Apply(fn, R.state.value),
          calls |-> Append(R.calls, [fn |-> k, arg |-> R.state.value])]
    ELSE [R EXCEPT !.state = Failure(R.state.error)]

\* result.ts 147-152: chain(fn), with a fn that returns a ResultState
ResultChain(R, k, fn) ==
    IF R.state.status = "success"
    THEN [state |-> Apply(fn, R.state.value),
          calls |-> Append(R.calls, [fn |-> k, arg |-> R.state.value])]
    ELSE [R EXCEPT !.state = Failure(R.state.error)]

\* what a step of a client of Result leaves alone
ResultUnchanged ==
    /\ trace' = <<>>
    /\ UNCHANGED <<collection, state, listeners, promises, parentalLink, built, now, nInst,
                   nListen, items>>
    /\ CacheUnchanged

\* a client calls Result.run(generator)
resultRun(ys) ==
    /\ last' = [op |-> "Result.run", yields |-> ys, out |-> ResultRun(ys)]
    /\ ResultUnchanged

\* a client evaluates x.flatChain(f1).flatChain(f2)
resultFlatChain(x, f1, f2) ==
    /\ last' = [op |-> "Result.flatChain", x |-> x, f1 |-> f1, f2 |-> f2,
                out |-> ResultFlatChain(ResultFlatChain(Chained(x), 1, f1), 2, f2)]
    /\ ResultUnchanged

\* a client evaluates x.chain(f1).chain(f2)
resultChain(x, f1, f2) ==
    /\ last' = [op |-> "Result.chain", x |-> x, f1 |-> f1, f2 |-> f2,
                out |-> ResultChain(ResultChain(Chained(x), 1, f1), 2, f2)]
    /\ ResultUnchanged

InitResult == NoCache(Budget(0, 0, 0))

NextResult ==
    \/ \E ys \in YieldLists : resultRun(ys)
    \/ \E x \in ResultInputs, f1, f2 \in ResultFns : resultFlatChain(x, f1, f2)
    \/ \E x \in ResultInputs, f1, f2 \in ResultFns : resultChain(x, f1, f2)

\* clients of Result
SpecResult == InitResult /\ [][NextResult]_vars

InitAwait == NoCache(Budget(MaxInstAsync, MaxProm, MaxListenersAwait))

NextAwait ==
    \/ new
    \/ \E value \in Values : ok(value)
    \/ \E error \in Errors : err(error)
    \/ fromResultPromise
    \/ fromValuePromise
    \/ \E i \in InstIds, value \in Values : updateFromValue(i, value)
    \/ \E i \in InstIds : updateFromResultPromise(i)
    \/ \E i \in InstIds : clientListen(i, DefaultListenerOptions)
    \/ \E i \in InstIds : waitForSettled(i)
    \/ \E i \in InstIds : toResultPromise(i)
    \/ \E p \in PromIds, outcome \in Outcomes : Settle(p, outcome)

\* clients that await the settling of one AsyncResult
SpecAwait == InitAwait /\ [][NextAwait]_vars

InitChain == NoCache(Budget(MaxInstChain, MaxPromChain, 0))

NextChain ==
    \/ new
    \/ \E value \in Values : ok(value)
    \/ \E error \in Errors : err(error)
    \/ fromResultPromise
    \/ \E a \in InstIds, fn \in ChainFns : chain(a, fn)
    \/ \E a, n \in InstIds : flatChain(a, n)
    \/ \E p \in PromIds, outcome \in Outcomes : Settle(p, outcome)

\* clients that chain AsyncResults
SpecChain == InitChain /\ [][NextChain]_vars

NextEnsure ==
    \/ new
    \/ \E value \in Values : ok(value)
    \/ \E error \in Errors : err(error)
    \/ fromResultPromise
    \/ \E inputs \in InputLists : ensureAvailable(inputs)
    \/ \E p \in PromIds, outcome \in Outcomes : Settle(p, outcome)

NextRun ==
    \/ new
    \/ \E value \in Values : ok(value)
    \/ \E error \in Errors : err(error)
    \/ fromResultPromise
    \/ \E yields \in InputLists : run(yields)
    \/ \E p \in PromIds, outcome \in Outcomes : Settle(p, outcome)

\* clients that drive generators with AsyncResult.run
SpecRun == InitChain /\ [][NextRun]_vars

InitDerived == NoCache(Budget(MaxInstChain, MaxPromChain, MaxListenersAwait))

NextDerived ==
    \/ new
    \/ fromResultPromise
    \/ Room /\ \E i \in InstIds : updateFromResultPromise(i)
    \/ \E parent \in InstIds, yields \in InputLists : derivedGenerator(parent, yields)
    \/ Room /\ \E p \in PromIds, outcome \in Outcomes : Settle(p, outcome)

\* clients that derive an AsyncResult from another with a generator
SpecDerived == InitDerived /\ [][NextDerived]_vars

\* clients that gather AsyncResults with ensureAvailable
SpecEnsure == InitChain /\ [][NextEnsure]_vars

\* ---------------------------------------------------------------- claims
IsGet == last.op = "get"
IsHit == IsGet /\ last.hit
IsInvalidation == last.op \in {"invalidateKey", "invalidateAll"}

\* the listener calls of the last step that reached entry e of instance i
CallsOf(i, e) ==
    {n \in 1..Len(trace) : trace[n].type = "call" /\ trace[n].inst = i /\ trace[n].entry = e}

\* a get() on a key without entry fetches once and stores a loading result
C1_Miss ==
    (IsGet /\ ~last.hit) =>
        /\ last.fetched = 1
        /\ cacheMap[last.key] = last.ret
        /\ state[last.ret].status = "loading"

C2_TTLExpiry ==
    (IsHit /\ last.valid /\ last.lastFetchSettled /\ last.policy = "no-refetch") =>
        last.fetched = (IF GreaterThan(last.elapsed, last.ttl) THEN 1 ELSE 0)

\* C3: the invalidating operations remove no entry, change no AsyncResult
\* state and start no fetch; a get() on an invalidated entry invokes the
\* fetcher whatever the policy and the TTL.
C3_Invalidation ==
    /\ IsInvalidation =>
            /\ cacheMap = last.cacheMap
            /\ state = last.state
            /\ promises = last.promises
            /\ fetches = last.fetches
    /\ (IsHit /\ ~last.valid) => last.fetched = 1

\* a get() under 'no-refetch' on an invalidated entry of unbounded TTL, its
\* result settled and still in place
C3_Witness ==
    /\ IsHit /\ ~last.valid /\ last.policy = "no-refetch" /\ last.ttl = Infinity
    /\ last.status = "success" /\ last.fetched = 1

\* a get() on an existing entry returns the instance returned before
C4_SameInstance == IsHit => (last.ret = last.prev /\ last.ret = cacheMap[last.key])

\* a settled fetch of an entry calls every listener of its instance with the
\* terminal state the fetch produced
C4_TerminalObserved ==
    last.op = "settle" =>
        \A i \in InstIds :
            (items[i].result = i /\ items[i].lastProm = last.promise) =>
                \A n \in DOMAIN listeners[i] :
                    \E c \in CallsOf(i, listeners[i][n].id) :
                        /\ IsTerminal(trace[c].new)
                        /\ last.promise \in {trace[c].new.value, trace[c].new.error.cause}

\* C4 as stated: between two clear() calls every get() on a key returns the
\* identical instance, also when it refetches; the refetch moves that
\* instance to loading, and every listener registered on it before observes
\* the new loading state and then the new terminal state.
C4_InPlaceAnyListener ==
    /\ C4_SameInstance
    /\ (IsHit /\ last.fetched = 1) =>
            /\ state[last.ret].status = "loading"
            /\ promises[state[last.ret].promise].status = "pending"
            /\ \A n \in DOMAIN listeners[last.ret] :
                    \E c \in CallsOf(last.ret, listeners[last.ret][n].id) :
                        trace[c].new = state[last.ret]
    /\ C4_TerminalObserved

\* C4, amended: between two clear() calls every get() on a key returns the
\* identical instance, also when it refetches; the refetch moves that
\* instance to loading, and every listener registered on it before observes
\* the new loading state, unless the instance was loading already and the
\* listener was registered without callOnProgressUpdates, and then the new
\* terminal state.
C4_InPlace ==
    /\ C4_SameInstance
    /\ (IsHit /\ last.fetched = 1) =>
            /\ state[last.ret].status = "loading"
            /\ promises[state[last.ret].promise].status = "pending"
            /\ \A n \in DOMAIN listeners[last.ret] :
                    (last.status # "loading"
                        \/ listeners[last.ret][n].options.callOnProgressUpdates) =>
                        \E c \in CallsOf(last.ret, listeners[last.ret][n].id) :
                            trace[c].new = state[last.ret]
    /\ C4_TerminalObserved

\* a refetch of a settled entry that has a listener
C4_Witness ==
    /\ IsHit /\ last.fetched = 1 /\ last.status = "success"
    /\ listeners[last.ret] # <<>>
    /\ CallsOf(last.ret, listeners[last.ret][1].id) # {}

\* C5: on a hit of a valid entry, 'refetch' always invokes the fetcher,
\* 'if-error' invokes it exactly when the entry's state is error, and
\* 'no-refetch' does not invoke it for an entry that settled to error within
\* its TTL.
C5_PolicyDecision ==
    (IsHit /\ last.valid) =>
        /\ last.policy = "refetch" => last.fetched = 1
        /\ last.policy = "if-error" => (last.fetched = 1 <=> last.status = "error")
        /\ (last.policy = "no-refetch" /\ last.status = "error"
                /\ ~GreaterThan(last.elapsed, last.ttl)) => last.fetched = 0

\* C6: right after clear() no entry is left and anyLoading() is false; the
\* first get() on a key after it invokes the fetcher and returns an instance
\* never returned before.
C6_Clear ==
    /\ last.op = "clear" => (~anyLoading /\ \A k \in Keys : cacheMap[k] = NoInst)
    /\ (IsGet /\ last.prev = NoInst) => (~last.hit /\ last.fetched = 1 /\ last.new)

\* a get() on a key that had an entry before clear()
C6_Witness ==
    /\ IsGet /\ last.prev = NoInst /\ last.fetched = 1
    /\ \E i \in returned : i # last.ret /\ items[i].key = last.key
                              /\ state[i].status = "loading"

\* the state assignments of the last step, by their place in the trace
Sets == {n \in 1..Len(trace) : trace[n].type = "set"}

\* the place of the assignment on the same instance that follows assignment n
NextSet(n) ==
    LET later == {m \in Sets : m > n /\ trace[m].inst = trace[n].inst}
    IN IF later = {} THEN Len(trace) + 1
       ELSE CHOOSE m \in later : \A x \in later : m <= x

\* the listener calls made for assignment n, by their place in the trace
Delivered(n) ==
    {c \in (n + 1)..(NextSet(n) - 1) :
        trace[c].type = "call" /\ trace[c].inst = trace[n].inst}

\* the entries assignment n has to call, in registration order
Due(n) ==
    SelectSeq(listeners[trace[n].inst],
              LAMBDA en : (trace[n].old.status = "loading" /\ trace[n].new.status = "loading")
                              => en.options.callOnProgressUpdates)

PromiseFactories == {"fromResultPromise", "fromValuePromise", "fromAction"}

C10_FiniteDebounce ==
    \A n \in Sets :
        (trace[n].old.status = "loading" /\ IsTerminal(trace[n].new)) =>
            \A k \in DOMAIN listeners[trace[n].inst] :
                LET en == listeners[trace[n].inst][k] IN
                (/\ ListenStrategy(en.options) = "timed"
                 /\ en.enteredAt # Undefined
                 /\ now - en.enteredAt < en.options.debounceLoadingMs) =>
                    /\ ~en.gotLoading
                    /\ \E c \in CallsOf(trace[n].inst, en.id) :
                            c > n /\ trace[c].new = trace[n].new

\* the options entry e of instance i was registered with
OptionsOf(i, e) ==
    (CHOOSE en \in {listeners[i][n] : n \in DOMAIN listeners[i]} : en.id = e).options

\* C11: a listener registered with the debounce delay Infinity is never
\* called with the instance loading, and an instance made by
\* toDebounced(Infinity) is never loading.
C11_InfiniteDebounce ==
    /\ \A c \in 1..Len(trace) :
            (trace[c].type = "call"
                /\ OptionsOf(trace[c].inst, trace[c].entry).debounceLoadingMs = Infinity) =>
                    trace[c].new.status # "loading"
    /\ \A i \in InstIds :
            (built[i].by = "toDebounced"
                /\ OptionsOf(parentalLink[i].parent, parentalLink[i].entry).debounceLoadingMs
                        = Infinity) =>
                    state[i].status # "loading"

\* C12: once the closure returned by listen() was called, no later state
\* assignment calls the listener, whatever debounce delay it was registered
\* with.
C12_Unsubscribe ==
    \A c \in 1..Len(trace) :
        trace[c].type = "call" => trace[c].entry \notin built[trace[c].inst].gone

\* a promise settles on an instance that has one listener left and one
\* unsubscribed, and the one left is called
C12_Witness ==
    /\ last.op = "settle"
    /\ \E i \in InstIds :
            /\ built[i].gone # {}
            /\ \E n \in DOMAIN listeners[i] : CallsOf(i, listeners[i][n].id) # {}

\* C13: updateProgress(p) on an instance that is not loading changes no state
\* and calls no listener; on a loading instance it keeps status and promise,
\* sets the progress to p, and calls exactly the listeners registered with
\* callOnProgressUpdates.
C13_UpdateProgress ==
    last.op = "updateProgress" =>
        IF last.old.status # "loading"
        THEN state[last.inst] = last.old /\ trace = <<>>
        ELSE /\ state[last.inst] = Loading(last.old.promise, last.progress)
             /\ \A n \in DOMAIN listeners[last.inst] :
                    LET en == listeners[last.inst][n] IN
                    Cardinality(CallsOf(last.inst, en.id))
                        = (IF en.options.callOnProgressUpdates THEN 1 ELSE 0)
             /\ \A c \in 1..Len(trace) :
                    trace[c].type = "call" => trace[c].new = state[last.inst]

\* updateProgress on a loading instance with one listener of each kind
C13_Witness ==
    /\ last.op = "updateProgress" /\ last.old.status = "loading"
    /\ last.old.progress # last.progress
    /\ \E n, m \in DOMAIN listeners[last.inst] :
            /\ listeners[last.inst][n].options.callOnProgressUpdates
            /\ ~listeners[last.inst][m].options.callOnProgressUpdates

\* C14: when the promise given to fromResultPromise, updateFromResultPromise
\* or fromAction rejects, the instance settles to the error with the code
\* 'defect_on_updateFromResultPromise', its listeners are called with that
\* state, and no rejection is left unhandled.
C14_DefectOnReject ==
    (last.op = "settle" /\ last.kind = "result" /\ last.outcome = "reject") =>
        /\ \A i \in last.targets :
                /\ state[i] = Failure(ErrorBase(DefectCode, last.promise))
                /\ \A n \in DOMAIN listeners[i] :
                        \E c \in CallsOf(i, listeners[i][n].id) : trace[c].new = state[i]
        /\ \A c \in 1..Len(trace) : trace[c].type # "unhandled"

\* the promise of an instance built by fromAction rejects while a listener
\* is registered
C14_Witness ==
    /\ last.op = "settle" /\ last.kind = "result" /\ last.outcome = "reject"
    /\ \E i \in last.targets :
            /\ built[i].by = "fromAction"
            /\ listeners[i] # <<>>
            /\ state[i].error.code = DefectCode

\* C15: when the promise given to fromValuePromise or updateFromValuePromise
\* rejects, the instance settles to an error carrying the code
\* 'defect_on_updateFromResultPromise', as for a rejected Promise<Result>.
C15_DefectOnValueReject ==
    (last.op = "settle" /\ last.kind = "value" /\ last.outcome = "reject") =>
        \A i \in last.targets :
            /\ state[i].status = "error"
            /\ state[i].error.code = DefectCode

\* C15 as amended: the instance settles to an error state whose error is the
\* value the promise rejected with, as it was caught; its listeners are called
\* with that state and no rejection is left unhandled.
C15_CaughtErrorOnValueReject ==
    (last.op = "settle" /\ last.kind = "value" /\ last.outcome = "reject") =>
        /\ \A i \in last.targets :
                /\ state[i] = Failure(Thrown(last.promise))
                /\ \A n \in DOMAIN listeners[i] :
                        \E c \in CallsOf(i, listeners[i][n].id) : trace[c].new = state[i]
        /\ \A c \in 1..Len(trace) : trace[c].type # "unhandled"

\* the promise of an instance built by fromValuePromise rejects while a
\* listener is registered
C15_Witness ==
    /\ last.op = "settle" /\ last.kind = "value" /\ last.outcome = "reject"
    /\ \E i \in last.targets :
            /\ built[i].by = "fromValuePromise"
            /\ listeners[i] # <<>>
            /\ state[i].status = "error"

\* C16: waitForSettled() on an idle instance resolves with the instance
\* still idle, its state unchanged and no listener called; toResultPromise()
\* on an idle instance rejects; waitForSettled() on an instance in success or
\* error changes nothing.
C16_IdleSettlementGap ==
    /\ (last.op = "waitForSettled" /\ last.old.status = "idle") =>
            /\ state[last.inst] = Idle
            /\ Len(trace) = 1
            /\ trace[1].type = "resolved" /\ trace[1].new = Idle
    /\ (last.op = "toResultPromise" /\ last.old.status = "idle") =>
            /\ state[last.inst] = Idle
            /\ Len(trace) = 1
            /\ trace[1].type = "rejected"
    /\ (last.op = "waitForSettled" /\ IsTerminal(last.old)) =>
            /\ state[last.inst] = last.old
            /\ Len(trace) = 1
            /\ trace[1].type = "resolved" /\ trace[1].new = last.old

\* toResultPromise() was called on an idle instance that has a listener
C16_Witness ==
    /\ last.op = "toResultPromise" /\ last.old.status = "idle"
    /\ listeners[last.inst] # <<>>
    /\ \E c \in 1..Len(trace) : trace[c].type = "rejected" /\ trace[c].new = Failure(ConversionError)

\* what an instance made from promise q is in once q has settled with res
AfterPromise(q) ==
    IF promises[q].res.rejected
    THEN Failure(ErrorBase(DefectCode, promises[q].res.state.error.cause))
    ELSE promises[q].res.state

\* C17: for r = a.chain(fn) or a.flatChain(fn): when a has settled to an
\* error, fn is never invoked and r is in the error state with the same
\* error; fn is invoked only once a is seen in success, exactly once and with
\* a's value, and r then settles to what fn returns: the Result, what the
\* promise of a Result fulfils with, or the settled state of the AsyncResult.
C17_ShortCircuit ==
    \A r \in InstIds :
        LET b == built[r] IN
        b.by \in {"chain", "flatChain"} =>
            /\ b.seen.status = "error" => b.calls = <<>> /\ state[r] = b.seen
            /\ b.calls = IF b.seen.status = "success" THEN <<b.seen.value>> ELSE <<>>
            /\ b.seen.status = "success" =>
                  CASE b.fn \in {"ok", "err"} -> state[r] = Apply(b.fn, b.seen.value)
                    [] b.fn = "promise" ->
                          /\ promises[b.ret].status = "pending" => state[r] = Loading(b.promise, 0)
                          /\ promises[b.ret].status = "settled" => state[r] = AfterPromise(b.ret)
                    [] b.fn = "instance" ->
                          /\ state[b.ret].status = "loading" => state[r] = Loading(b.promise, 0)
                          /\ IsTerminal(state[b.ret]) => state[r] = state[b.ret]
            /\ (b.seen = NotConstructed) => state[r] = Loading(b.promise, 0)

\* a was loading when flatChain was called, settled to success, and fn
\* returned an instance that was loading and settled later
C17_Witness ==
    \E r \in InstIds :
        /\ built[r].by = "flatChain"
        /\ last.op = "settle"
        /\ built[built[r].from].wasLoading
        /\ built[r].calls # <<>>
        /\ built[built[r].ret].wasLoading /\ built[r].ret # built[r].from
        /\ IsTerminal(state[r])
        /\ \E c \in 1..Len(trace) : trace[c].type = "set" /\ trace[c].inst = r

\* C18: the result of ensureAvailable on an empty list is success with the
\* empty list and was never loading; on a list that is not empty it is
\* loading while an input is loading, and once every input has settled it is
\* success with the inputs' values in the order of the list when all of them
\* are in success, else the error of the first input of the list in error.
C18_EnsureAvailable ==
    \A r \in InstIds :
        LET ins == built[r].inputs
            errors == {k \in DOMAIN ins : state[ins[k]].status = "error"}
        IN built[r].by = "ensureAvailable" =>
            /\ ins = <<>> => state[r] = Success(ListOf(<<>>)) /\ ~built[r].wasLoading
            /\ (\E k \in DOMAIN ins : state[ins[k]].status = "loading") =>
                    state[r] = Loading(built[r].promise, 0)
            /\ (ins # <<>> /\ \A k \in DOMAIN ins : IsTerminal(state[ins[k]])) =>
                    IF errors = {}
                    THEN state[r] = Success(ListOf([k \in DOMAIN ins |-> state[ins[k]].value]))
                    ELSE \E k \in errors :
                            /\ \A j \in errors : k <= j
                            /\ state[r] = Failure(state[ins[k]].error)

\* two inputs that were loading, the second settled first, both to an error
C18_Witness ==
    \E r \in InstIds :
        /\ built[r].by = "ensureAvailable" /\ Len(built[r].inputs) = 2
        /\ last.op = "settle"
        /\ LET a == built[r].inputs[1]
               b == built[r].inputs[2]
           IN /\ a # b
              /\ built[a].wasLoading /\ built[b].wasLoading
              /\ last.promise = built[a].promise
              /\ state[a].status = "error" /\ state[b].status = "error"
              /\ state[r] = state[a]

\* the yields of a run that come before the first one not in success
Succeeded(ys) == {k \in DOMAIN ys : \A j \in 1..k : state[ys[j]].status = "success"}

\* C19: the generator of a run is resumed once for each yielded instance
\* that has settled to success, with its value and in the order of the yields,
\* and never past a yielded instance that is loading or in error; when a
\* yielded instance has settled to error the result of the run settles to the
\* same error, and when all have settled to success it settles to success
\* with the value the generator returns.
C19_RunSequencing ==
    \A r \in InstIds :
        LET ys == built[r].inputs
            n == Cardinality(Succeeded(ys))
        IN built[r].by = "run" =>
            /\ built[r].resumed = [k \in 1..n |-> state[ys[k]].value]
            /\ (n < Len(ys) /\ state[ys[n + 1]].status = "error") =>
                    state[r] = Failure(state[ys[n + 1]].error)
            /\ (n < Len(ys) /\ state[ys[n + 1]].status = "loading") =>
                    state[r] = Loading(built[r].promise, 0)
            /\ n = Len(ys) =>
                    state[r] = Success(GenReturn([k \in 1..n |-> state[ys[k]].value]))

\* a run of two yields: the first was loading and both settled to success
C19_Witness ==
    \E r \in InstIds :
        /\ built[r].by = "run" /\ Len(built[r].inputs) = 2
        /\ last.op = "settle"
        /\ built[built[r].inputs[1]].wasLoading
        /\ built[r].inputs[1] # built[r].inputs[2]
        /\ Len(built[r].resumed) = 2
        /\ state[r].status = "success"

\* C20: for d = parent.derivedGenerator(gen), in every step: each call of
\* the listener of d with the parent idle, loading or in error is followed by
\* the assignment of the parent's state to d and invokes no generator; each
\* call with the parent in success invokes gen once, with the parent's value,
\* and is followed by the assignment to d of loading with the promise of that
\* run; when the promise of a run settles, d is assigned what it settled
\* with.  The call made when d is created is one of these calls.
C20_Derived ==
    [][\A d \in InstIds :
        built'[d].by = "derivedGenerator" =>
            LET e == parentalLink'[d].entry
                IsCall(ev) == ev.type = "call" /\ ev.entry = e
                InSuccess(ev) == IsCall(ev) /\ ev.new.status = "success"
                succ == SelectSeq(trace', InSuccess)
                had == IF built[d].by = "derivedGenerator" THEN built[d].calls ELSE <<>>
                RunOf(c) == built'[d].runs[Len(had) + Len(SelectSeq(SubSeq(trace', 1, c), InSuccess))]
            IN /\ built'[d].calls = had \o [k \in 1..Len(succ) |-> succ[k].new.value]
               /\ Len(built'[d].runs) = Len(built'[d].calls)
               /\ \A c \in 1..Len(trace') :
                     IsCall(trace'[c]) =>
                        /\ c < Len(trace')
                        /\ trace'[c + 1].type = "set" /\ trace'[c + 1].inst = d
                        /\ trace'[c + 1].new = IF trace'[c].new.status = "success"
                                               THEN Loading(RunOf(c), 0)
                                               ELSE trace'[c].new
               /\ \A k \in DOMAIN built'[d].runs :
                     LET q == built'[d].runs[k]
                         res == promises'[q].res
                     IN (promises[q].status # "settled" /\ promises'[q].status = "settled") =>
                            /\ \E c \in 1..Len(trace') :
                                  /\ trace'[c].type = "set" /\ trace'[c].inst = d
                                  /\ trace'[c].new =
                                        IF res.rejected
                                        THEN Failure(ErrorBase(DefectCode, res.state.error.cause))
                                        ELSE res.state
                            /\ built'[d].inputs = <<>> =>
                                  res = Fulfilled(Success(GenReturn(<<built'[d].calls[k]>>)))
      ]_vars

\* the parent was loading when d was derived and settled to success; the
\* generator yielded an instance that was loading, and the run has settled
C20_Witness ==
    \E d \in InstIds :
        /\ built[d].by = "derivedGenerator"
        /\ last.op = "settle"
        /\ built[built[d].from].wasLoading
        /\ Len(built[d].runs) = 1
        /\ promises[built[d].runs[1]].status = "settled"
        /\ built[d].inputs # <<>> /\ built[built[d].inputs[1]].wasLoading
        /\ built[d].inputs[1] # built[d].from
        /\ state[d].status = "success"


\* ---------------------------------------------------------------- C21
\* the entries of instance i through which a mirror() with the default
\* options copies the state of i to instance c for good
LiveCopies(ls, c) ==
    {n \in DOMAIN ls : ls[n].mirror = c /\ ~ls[n].until
                        /\ ls[n].options = DefaultListenerOptions}

\* the step settles a promise that instance c was given itself or waits for
SettlesOwn(c) ==
    /\ last'.op = "settle"
    /\ \E n \in DOMAIN promises[last'.promise].reactions :
            LET r == promises[last'.promise].reactions[n]
            IN r.kind \in {"update", "wait"} /\ r.target = c

\* the operations on a child that the claim names
ChildOps == {"updateFromValue", "updateFromError", "updateProgress", "detachFromParent"}

\* C21: mirror is a live one-way copy.  With c.mirror(p) called with the
\* default options: c has the state of p when the call returns; as long as
\* the subscription stands, every step in which the state of p changes ends
\* with c in the state of p; and no updateFromValue, updateFromError,
\* updateProgress or detachFromParent on an instance that mirrors p changes
\* the state of p.
C21_LiveOneWayCopy ==
    [][/\ (last'.op = "mirror" /\ last'.options = DefaultListenerOptions)
            => state'[last'.inst] = state'[last'.other]
       /\ \A p, c \in InstIds :
            (state'[p] # state[p] /\ LiveCopies(listeners[p], c) # {}
                /\ LiveCopies(listeners'[p], c) # {} /\ ~SettlesOwn(c))
            => state'[c] = state'[p]
       /\ \A p, c \in InstIds :
            (last'.op \in ChildOps /\ last'.inst = c
                /\ \E n \in DOMAIN listeners[p] : listeners[p][n].mirror = c)
            => state'[p] = state[p]]_vars

\* ---------------------------------------------------------------- C22
\* the entries of instance b through which a mirrorUntilSettled() copies
\* the state of b
UntilSettledCopies(ls) == {n \in DOMAIN ls : ls[n].until /\ ls[n].mirror # NoInst}

\* C22: a.mirrorUntilSettled(b) copies the states of b to a up to and
\* including the first terminal state of b and then removes its
\* subscription: a has the state of b when the call returns, a step that
\* changes the state of b ends with a in that state, and no subscription of
\* a mirrorUntilSettled remains on a settled instance, also when b was
\* settled already at the time of the call.
C22_AutoDetach ==
    [][\A b \in InstIds :
        /\ UntilSettledCopies(listeners'[b]) # {} => ~IsTerminal(state'[b])
        /\ \A n \in UntilSettledCopies(listeners[b]) :
                (state'[b] # state[b] /\ ~SettlesOwn(listeners[b][n].mirror))
                => state'[listeners[b][n].mirror] = state'[b]
        /\ (last'.op = "mirrorUntilSettled" /\ last'.other = b)
                => state'[last'.inst] = state[b]]_vars

\* ---------------------------------------------------------------- C23
\* the events of a step that concern entry e of instance i
EventsOf(tr, type, i, e) ==
    {n \in DOMAIN tr : tr[n].type = type /\ tr[n].inst = i /\ tr[n].entry = e}

\* C23: a listener registered with listenUntilSettled is unsubscribed once
\* it has been called with the instance settled; the callback of
\* onSuccessOnce / onErrorOnce is invoked at most once, and exactly once and
\* without an exception when the instance is in the matching terminal state
\* at the registration.
C23_OneShot ==
    [][\A i \in InstIds :
        /\ \A n \in DOMAIN listeners'[i] :
                LET en == listeners'[i][n]
                IN (en.until /\ en.mirror = NoInst)
                   => \A m \in EventsOf(trace', "call", i, en.id) :
                          ~IsTerminal(trace'[m].new)
        /\ \A e \in ListenerIds :
                Len(SelectSeq(built'[i].once, LAMBDA x : x = e)) <= 1
        /\ (last'.op = "listenUntilSettled" /\ last'.inst = i
                /\ last'.once = last'.old.status)
            => /\ Cardinality(EventsOf(trace', "callback", i, last'.entry)) = 1
               /\ \A n \in DOMAIN trace' : trace'[n].type # "thrown"]_vars

\* ---------------------------------------------------------------- C24
\* the state an instance is given when promise p settles with outcome
OutcomeState(p, outcome) ==
    IF outcome = "reject" THEN Failure(ErrorBase(DefectCode, p)) ELSE ResultState(p, outcome)

\* C24: the result of makeLazyAction is idle and its action is not invoked
\* until trigger() is called; every trigger() invokes the action once and
\* leaves the result loading on the promise of that invocation when it
\* returns; when that promise settles the result takes its outcome.
C24_LazyAction ==
    [][\A i \in InstIds :
        /\ (last'.op = "makeLazyAction" /\ last'.inst = i)
            => state'[i] = Idle /\ built'[i].runs = <<>>
        /\ (built'[i].by = "makeLazyAction" /\ built'[i].runs = <<>>) => state'[i] = Idle
        /\ (last'.op = "trigger" /\ last'.inst = i)
            => /\ built'[i].runs = Append(built[i].runs, last'.promise)
               /\ promises[last'.promise].status = "none"
               /\ state'[i] = Loading(last'.promise, 0)
        /\ (last'.op = "settle" /\ built[i].by = "makeLazyAction"
                /\ \E n \in DOMAIN built[i].runs : built[i].runs[n] = last'.promise)
            => state'[i] = OutcomeState(last'.promise, last'.outcome)]_vars

\* a lazy action was triggered twice, the second time from a settled result,
\* and its second promise has just settled
C24_Witness ==
    \E i \in InstIds :
        /\ built[i].by = "makeLazyAction" /\ Len(built[i].runs) = 2
        /\ last.op = "settle" /\ last.promise = built[i].runs[2]
        /\ promises[built[i].runs[1]].status = "settled"
        /\ IsTerminal(state[i])

\* ---------------------------------------------------------------- C25
\* the keys the collection tracks
Tracked == {k \in CollKeys : collection.list[k] # NoTask}

\* C25: the state of the collection is 'any-loading' exactly when at least
\* one tracked AsyncResult is loading, and 'all-settled' otherwise, after
\* every operation: also after one that adds a settled or idle AsyncResult
\* and after a tracked one starts a new loading cycle.
C25_AggregateState ==
    collection.state =
        IF \E k \in Tracked : state[collection.list[k].result].status = "loading"
        THEN "any-loading" ELSE "all-settled"

\* ---------------------------------------------------------------- C26
\* C26: an AsyncResult added with removeOnSettle is removed from the
\* collection once it is in a terminal state, also when it was in one
\* already when it was added; one added with removeOnSettle = false stays
\* tracked until remove(key) or clear() (or until add() replaces it).
C26_RemoveOnSettle ==
    [][\A k \in CollKeys :
        /\ (collection'.list[k] # NoTask /\ collection'.list[k].removeOnSettle)
            => ~IsTerminal(state'[collection'.list[k].result])
        /\ (collection.list[k] # NoTask /\ ~collection.list[k].removeOnSettle
                /\ ~(last'.op \in {"add", "remove"} /\ last'.key = k)
                /\ last'.op # "clear")
            => collection'.list[k] = collection.list[k]]_vars

\* ---------------------------------------------------------------- C27
\* the ids of the listener entries of instance i
EntryIds(ls) == {ls[n].id : n \in DOMAIN ls}

\* the listener entries that add() registered and a step called
CollectionCalls(tr, ls) ==
    {n \in DOMAIN tr :
        /\ tr[n].type = "call"
        /\ \E m \in DOMAIN ls[tr[n].inst] :
                ls[tr[n].inst][m].id = tr[n].entry /\ ls[tr[n].inst][m].key # ""}

BeforeError(ys) == {k \in DOMAIN ys : \A j \in 1..k : ys[j].status = "success"}

\* C28: Result.run resumes the generator once for each Result it yields
\* before the first error, with the value of that Result and in order; at
\* the first error it stops and returns that error, the generator is not
\* resumed again; when the generator returns, run returns ok of the value
\* it returned.
C28_ResultRun ==
    last.op = "Result.run" =>
        LET ys == last.yields
            n == Cardinality(BeforeError(ys))
        IN /\ last.out.resumed = [k \in 1..n |-> ys[k].value]
           /\ last.out.state =
                IF n < Len(ys) THEN Failure(ys[n + 1].error)
                ELSE Success(GenReturn([k \in 1..n |-> ys[k].value]))

\* a generator that yields a success, then an error, then a success
C28_Witness ==
    /\ last.op = "Result.run"
    /\ Len(last.yields) = 3
    /\ last.yields[1].status = "success" /\ last.yields[2].status = "error"
    /\ last.yields[3].status = "success"
    /\ last.out.state = Failure(last.yields[2].error)
    /\ last.out.resumed = <<last.yields[1].value>>

\* ---------------------------------------------------------------- C29
\* C29: chain and flatChain on an error Result do not invoke the function
\* and return a Result with the same error; in x.flatChain(f1).flatChain(f2)
\* (and with chain) on a success x, f1 is invoked once with the value of x,
\* f2 is not invoked when f1 returns an error, which is then the result,
\* and otherwise f2 is invoked once, with the value f1 returned.
C29_ShortCircuit ==
    last.op \in {"Result.flatChain", "Result.chain"} =>
        LET x == last.x
            y == Apply(last.f1, x.value)
            Invocation(k, v) == [fn |-> k, arg |-> v]
        IN IF x.status = "error"
           THEN last.out.calls = <<>> /\ last.out.state = x
           ELSE IF y.status = "error"
           THEN last.out.calls = <<Invocation(1, x.value)>> /\ last.out.state = y
           ELSE /\ last.out.calls = <<Invocation(1, x.value), Invocation(2, y.value)>>
                /\ last.out.state = Apply(last.f2, y.value)

\* f1 fails on a success, and f2 is a function that would succeed
C29_Witness ==
    /\ last.op = "Result.flatChain"
    /\ last.x.status = "success" /\ last.f1 = "err" /\ last.f2 = "ok"
    /\ last.out.state.status = "error"
    /\ Len(last.out.calls) = 1

\* ---------------------------------------------------------------- C30
\* C30: a get under 'no-refetch' that finds a valid entry whose AsyncResult
\* is loading does not invoke the fetcher, whatever the TTL and the time
\* elapsed, in the first fetch of the entry and in a later one.
C30_NoRefetchWhileLoading ==
    (last.op = "get" /\ last.hit /\ last.policy = "no-refetch" /\ last.valid
        /\ last.status = "loading")
    => last.fetched = 0

\* ---------------------------------------------------------------- C31
\* the pending promises of the fetches of cache item i
FetchesOf(i) ==
    {p \in PromIds : \E n \in DOMAIN promises[p].reactions :
                        promises[p].reactions[n] = StampReaction(i)}

LifecycleChanges ==
    {<<"idle", "loading">>, <<"loading", "success">>, <<"loading", "error">>,
     <<"success", "loading">>, <<"error", "loading">>}

C33_SuccessOnlyOfSuccesses ==
    [][\A r \in InstIds :
          LET ins == built'[r].inputs
          IN (/\ built'[r].by = "ensureAvailable"
              /\ state[r].status # "success"
              /\ state'[r].status = "success")
             => /\ \A k \in DOMAIN ins : state'[ins[k]].status = "success"
                /\ state'[r].value = ListOf([k \in DOMAIN ins |-> state'[ins[k]].value])]_vars

\* the state an instance takes from promise p of the given kind
SettledState(p, kind, outcome) ==
    IF kind = "value" THEN ValueResultState(p, outcome) ELSE OutcomeState(p, outcome)

\* C34: superseded cycles are not guarded: when a promise given to an
\* instance resolves while the instance is loading on a later promise that is
\* still pending, the state of the instance becomes the outcome of the
\* earlier promise and every listener of the instance is called with it,
\* the later promise being still pending.
C34_StaleResolutionApplies ==
    [][\A i \in InstIds :
          (/\ last'.op = "settle"
           /\ i \in last'.targets
           /\ state[i].status = "loading"
           /\ state[i].promise \in PromIds \ {last'.promise}
           /\ promises[state[i].promise].status = "pending")
          => /\ state'[i] = SettledState(last'.promise, last'.kind, last'.outcome)
             /\ promises'[state[i].promise].status = "pending"
             /\ \A n \in DOMAIN listeners[i] :
                    \E c \in DOMAIN trace' :
                        trace'[c] = CallEvent(i, listeners[i][n].id, state[i], state'[i])]_vars

\* the earlier promise of an instance with a listener has resolved while the
\* later one is pending
C34_Witness ==
    \E i \in InstIds :
        /\ last.op = "settle" /\ i \in last.targets
        /\ IsTerminal(state[i])
        /\ listeners[i] # <<>>
        /\ \E c \in DOMAIN trace :
                /\ trace[c].type = "call" /\ trace[c].inst = i
                /\ trace[c].old.status = "loading"
                /\ trace[c].old.promise \in PromIds \ {last.promise}
                /\ promises[trace[c].old.promise].status = "pending"
                /\ trace[c].new = state[i]

\* C35: invalidation is consumed by the refetch it causes: after a get has
\* refetched an entry because it was invalid, the entry is valid again, and
\* a get of the same key under 'no-refetch' that follows at once, the
\* refetch still loading, does not invoke the fetcher.
C35_InvalidationConsumed ==
    [][(/\ last.op = "get" /\ last.hit /\ ~last.valid /\ last.fetched = 1
        /\ last'.op = "get" /\ last'.key = last.key /\ last'.policy = "no-refetch")
       => last'.valid /\ last'.fetched = 0]_vars

\* C36: the latest fetch wins in the cache: an entry of the cache is not in
\* a terminal state while its most recently started fetch is pending, and
\* once no fetch of the entry is pending its state is the outcome of the
\* most recently started fetch, in whatever order the promises resolved.
C36_LatestFetchWins ==
    \A k \in Keys :
        LET i == cacheMap[k]
            latest == items[i].lastProm
        IN i # NoInst =>
            /\ promises[latest].status = "pending" => ~IsTerminal(state[i])
            /\ FetchesOf(i) = {} =>
                  state[i] = IF promises[latest].res.rejected
                             THEN Failure(ErrorBase(DefectCode, latest))
                             ELSE promises[latest].res.state

\* C37: the defect error state is entered only on rejection: when a promise
\* given to updateFromResultPromise resolves with a Result, every instance
\* it was given to is left in the state of that Result by the step, a
\* listener throwing or not, and has the error of code
\* 'defect_on_updateFromResultPromise' only when the promise was rejected.
C37_DefectOnlyOnRejection ==
    [][\A i \in InstIds :
          (last'.op = "settle" /\ i \in last'.targets /\ last'.outcome # "reject")
          => state'[i] = SettledState(last'.promise, last'.kind, last'.outcome)]_vars

\* C38: no silent state change: in a step that takes an instance from
\* loading to success or error, waitForSettled() being awaited or not, every
\* listener registered on the instance is called with the change from the
\* loading state, and the last state the listeners were called with is the
\* state the instance is left in.
C38_NoSilentChange ==
    [][\A i \in InstIds :
          (state[i].status = "loading" /\ IsTerminal(state'[i]))
          => \A n \in DOMAIN listeners[i] :
                LET calls == {c \in DOMAIN trace' :
                                 /\ trace'[c].type = "call" /\ trace'[c].inst = i
                                 /\ trace'[c].entry = listeners[i][n].id}
                IN /\ \E c \in calls : trace'[c].old = state[i]
                   /\ \E c \in calls : /\ trace'[c].new = state'[i]
                                       /\ \A d \in calls : d <= c]_vars

\* C39: the entries of an AsyncResultCollection are removed only by their own
\* outcome settling, by remove(key) or by clear(): a step that is none of
\* add, remove and clear leaves the item of a tracked key as it is, or
\* deletes it when it was added with removeOnSettle and its own outcome was
\* given a terminal state in the step; and the collection has no listener
\* on an outcome under a tracked key other than the one of the key's item.
C39_OwnEntryOnly ==
    [][\A k \in CollKeys :
          LET it == collection.list[k] IN
          /\ (/\ it # NoTask
              /\ last'.op \notin {"add", "remove", "clear"}
              /\ collection'.list[k] # it)
             => /\ it.removeOnSettle
                /\ collection'.list[k] = NoTask
                /\ \E c \in DOMAIN trace' :
                      /\ trace'[c].type = "set" /\ trace'[c].inst = it.result
                      /\ IsTerminal(trace'[c].new)
          /\ collection'.list[k] # NoTask
             => \A i \in InstIds : \A n \in DOMAIN listeners'[i] :
                    listeners'[i][n].key = k
                        => /\ collection'.list[k].result = i
                           /\ collection'.list[k].entry = listeners'[i][n].id]_vars

\* C40: detachFromParent() removes every parent subscription: when it has
\* returned, having found a link to a parent, no instance carries a listener
\* that copies its state into the detached instance, however many times
\* mirror() or mirrorUntilSettled() were called on it before.
C40_DetachRemovesAll ==
    \A i \in InstIds :
        (last.op = "detachFromParent" /\ last.inst = i /\ last.other # NoInst)
        => \A j \in InstIds : \A n \in DOMAIN listeners[j] : listeners[j][n].mirror # i

====
